---------------------------- MODULE Spec2Model ----------------------------
(*************************************************************************)
(* Waste-cost dashboard (src/dashboard.py): the price pipeline           *)
(* (workbook -> daily prices -> monthly prices), the weight pipeline     *)
(* (two ledgers -> unified ledger -> monthly summary -> share -> merge   *)
(* with the monthly prices) and the control flow of load_weight_summary  *)
(* and main.                                                             *)
(*                                                                       *)
(* A DataFrame is [columns |-> <<names>>, rows |-> <<row, ...>>], a row  *)
(* a function from the column names to the cells.  A cell that pandas    *)
(* may hold as NaN/NaT is an option: NaN is <<>>, a present value v is   *)
(* <<v>>; fillna turns the option back into a plain value.  A call that  *)
(* may raise returns Ok(value) or Raised(exception).  A column name as a *)
(* source spells it is the sequence of the code points of its            *)
(* characters.                                                           *)
(*************************************************************************)
EXTENDS Integers, Sequences, FiniteSets, TLC

VARIABLES
  pc,                      \* position of the run
  source,                  \* the table an adapter reads: a demo file or a query result
  workbook,                \* the uploaded workbook: a sequence of sheets
  df_all_price,            \* result of load_and_clean_price_from_workbook
  df_price_y_m,            \* monthly price table
  df_inrooissy_no_pmcdbu,  \* general ledger, as its adapter returned it
  df_dbu,                  \* program ledger, as its adapter returned it
  df_inrooissy,            \* unified ledger
  df_summary,              \* result of summarize_inrooissy
  dbu_share,               \* result of calc_dbu_share
  merged_full,             \* result of merge_weight_and_price
  merged_again,            \* result of merge_weight_and_price on its own output
  use_demo,                \* USE_DEMO_DATA
  sf_conn,                 \* Snowflake connection: "none", "open", "closed"
  pg_conn,                 \* Postgres connection: "none", "open", "closed"
  exc,                     \* class of the exception in flight or caught last, or "none"
  lws_status,              \* load_weight_summary: "none", "running", "returned", "raised"
  log,                     \* the steps main has started, in order
  shown,                   \* the messages main has shown, in order
  raised_at,               \* the step of main that raised, or "none"
  months_left,             \* months the small-multiples loop has yet to chart
  main_status              \* main: "running", "returned", "escaped"

\* the tables of the two pipelines
data == <<source, workbook, df_all_price, df_price_y_m, df_inrooissy_no_pmcdbu, df_dbu,
          df_inrooissy, df_summary, dbu_share, merged_full, merged_again>>

\* the state of main and of load_weight_summary
ctl == <<use_demo, sf_conn, pg_conn, exc, lws_status, log, shown, raised_at,
         months_left, main_status>>

vars == <<pc, data, ctl>>

-----------------------------------------------------------------------------
(* Bounds of the model *)

\* rows in the two ledgers together
MaxRows == 2
\* sheets in a workbook
MaxSheets == 2
\* rows in all sheets of a workbook together
MaxPriceRows == 2
\* months charted by main's small-multiples loop
MaxChartMonths == 2

-----------------------------------------------------------------------------
(* pandas primitives *)

NaN == <<>>
None == [none |-> TRUE]

\* main and load_weight_summary before they run (demo mode, as configured)
CtlIdle ==
  /\ use_demo = TRUE
  /\ sf_conn = "none"
  /\ pg_conn = "none"
  /\ exc = "none"
  /\ lws_status = "none"
  /\ log = <<>>
  /\ shown = <<>>
  /\ raised_at = "none"
  /\ months_left = 0
  /\ main_status = "running"

Ok(v) == [raised |-> "none", value |-> v]
Raised(e) == [raised |-> e]

DataFrame(cols, rows) == [columns |-> cols, rows |-> rows]

Range(s) == {s[i] : i \in 1..Len(s)}
ColSet(df) == Range(df.columns)
HasColumn(df, c) == c \in ColSet(df)

RECURSIVE SumSeq(_)
SumSeq(s) == IF s = <<>> THEN 0 ELSE Head(s) + SumSeq(Tail(s))

\* Series.sum() with skipna: a NaN cell adds nothing
RECURSIVE SumSkipNa(_)
SumSkipNa(s) ==
  IF s = <<>> THEN 0
  ELSE (IF Head(s) = NaN THEN 0 ELSE Head(s)[1]) + SumSkipNa(Tail(s))

RECURSIVE Flatten(_)
Flatten(ss) == IF ss = <<>> THEN <<>> ELSE Head(ss) \o Flatten(Tail(ss))

\* lexicographic order of the transporter tags of the model
TransporterOrder == <<"DBU-PMC", "UPS">>
StrRank(t) == CHOOSE i \in 1..Len(TransporterOrder) : TransporterOrder[i] = t

\* (year, month) keys, ascending
PeriodLess(a, b) == a[1] < b[1] \/ (a[1] = b[1] /\ a[2] < b[2])

RECURSIVE SortPeriods(_)
SortPeriods(S) ==
  IF S = {} THEN <<>>
  ELSE LET m == CHOOSE a \in S : \A b \in S \ {a} : PeriodLess(a, b)
       IN <<m>> \o SortPeriods(S \ {m})

\* (year, month, transporter) keys, ascending
Key3Less(a, b) ==
  \/ PeriodLess(a, b)
  \/ a[1] = b[1] /\ a[2] = b[2] /\ StrRank(a[3]) < StrRank(b[3])

RECURSIVE SortKeys3(_)
SortKeys3(S) ==
  IF S = {} THEN <<>>
  ELSE LET m == CHOOSE a \in S : \A b \in S \ {a} : Key3Less(a, b)
       IN <<m>> \o SortKeys3(S \ {m})

\* The year and month columns that summarize_inrooissy reads off a ledger
\* with a missing stamp are float64 (2024.0): the frame names them in a
\* third field, float64, and their cells hold the whole number.  The dtype
\* of the other columns is not modelled.
FloatColumns(df) == IF "float64" \in DOMAIN df THEN df.float64 ELSE {}

AsFloat64(df, cols) ==
  IF cols = {} THEN [columns |-> df.columns, rows |-> df.rows]
  ELSE [columns |-> df.columns, rows |-> df.rows, float64 |-> cols]

\* s.zfill(2)
zfill2(s) == IF Len(s) < 2 THEN "0" \o s ELSE s

\* str(v) of a cell of an int column, or of a float64 column holding the
\* whole number v (of a size str writes without an exponent)
astype_str(v, float) == IF float THEN ToString(v) \o ".0" ELSE ToString(v)

\* year.astype(str) + "-" + month.astype(str).str.zfill(2), on int columns
x_label(year, month) ==
  astype_str(year, FALSE) \o "-" \o zfill2(astype_str(month, FALSE))

\* df[cols]
Select(df, cols) ==
  AsFloat64(DataFrame(cols, [i \in 1..Len(df.rows) |->
                               [c \in Range(cols) |-> df.rows[i][c]]]),
            FloatColumns(df) \cap Range(cols))

\* pd.concat([a, b], ignore_index=True): the rows of a, then the rows of b,
\* over the union of the columns; a cell of a column the frame lacks is NaN
pd_concat(a, b) ==
  LET extra == SelectSeq(b.columns, LAMBDA c : c \notin ColSet(a))
      cols  == a.columns \o extra
      widen(df, r) == [c \in Range(cols) |-> IF c \in ColSet(df) THEN r[c] ELSE NaN]
  IN DataFrame(cols,
               [i \in 1..Len(a.rows) |-> widen(a, a.rows[i])]
               \o [i \in 1..Len(b.rows) |-> widen(b, b.rows[i])])

\* pd.merge(left, right, on=on, how="left"): every left row, in order, once
\* per right row with the same key, or once with NaN in the right columns.
\* A column of both frames that is not a key gets the suffixes _x and _y.
\* The cells of the right columns are options.  Keys are compared by their
\* number, 2024.0 matching 2024, and the key columns keep the left dtype.
pd_merge_left(left, right, on) ==
  LET overlap   == (ColSet(left) \cap ColSet(right)) \ on
      lname(c)  == IF c \in overlap THEN c \o "_x" ELSE c
      rname(c)  == IF c \in overlap THEN c \o "_y" ELSE c
      rcols     == SelectSeq(right.columns, LAMBDA c : c \notin on)
      cols      == [i \in 1..Len(left.columns) |-> lname(left.columns[i])]
                   \o [i \in 1..Len(rcols) |-> rname(rcols[i])]
      lorigin(n) == CHOOSE c \in ColSet(left) : lname(c) = n
      rorigin(n) == CHOOSE c \in Range(rcols) : rname(c) = n
      fromleft(n) == \E c \in ColSet(left) : lname(c) = n
      same(l, r) == \A k \in on : l[k] = r[k]
      join(l, r) == [n \in Range(cols) |->
                       IF fromleft(n) THEN l[lorigin(n)] ELSE <<r[rorigin(n)]>>]
      alone(l)   == [n \in Range(cols) |->
                       IF fromleft(n) THEN l[lorigin(n)] ELSE NaN]
      matches(l) == SelectSeq(right.rows, LAMBDA r : same(l, r))
      out(l)     == IF matches(l) = <<>> THEN <<alone(l)>>
                    ELSE [j \in 1..Len(matches(l)) |-> join(l, matches(l)[j])]
      floats     == {lname(c) : c \in FloatColumns(left)}
                    \cup {rname(c) : c \in FloatColumns(right) \ on}
  IN AsFloat64(DataFrame(cols, Flatten([i \in 1..Len(left.rows) |-> out(left.rows[i])])),
               floats)

\* df[col] = df[col].fillna(v)
fillna(df, col, v) ==
  AsFloat64(DataFrame(df.columns,
                      [i \in 1..Len(df.rows) |->
                         [df.rows[i] EXCEPT ![col] = IF @ = NaN THEN v ELSE @[1]]]),
            FloatColumns(df))

-----------------------------------------------------------------------------
(* Price pipeline *)

\* the two columns a price sheet must hold: the date column and "Tot. H.T"
COL_DATE == "riqi"
COL_AMOUNT == "Tot. H.T"

\* A character of a sheet name is a one-letter string; a character outside
\* ASCII is written by its code point, "U+FF12" for fullwidth two.

AsciiDigits == <<"0", "1", "2", "3", "4", "5", "6", "7", "8", "9">>

\* the other decimal digits of Unicode (category Nd), zero to nine script by
\* script: \d of a str pattern matches them as well
UnicodeDigits ==
  <<
    <<"U+0660", "U+0661", "U+0662", "U+0663", "U+0664",
      "U+0665", "U+0666", "U+0667", "U+0668", "U+0669">>,
    <<"U+06F0", "U+06F1", "U+06F2", "U+06F3", "U+06F4",
      "U+06F5", "U+06F6", "U+06F7", "U+06F8", "U+06F9">>,
    <<"U+07C0", "U+07C1", "U+07C2", "U+07C3", "U+07C4",
      "U+07C5", "U+07C6", "U+07C7", "U+07C8", "U+07C9">>,
    <<"U+0966", "U+0967", "U+0968", "U+0969", "U+096A",
      "U+096B", "U+096C", "U+096D", "U+096E", "U+096F">>,
    <<"U+09E6", "U+09E7", "U+09E8", "U+09E9", "U+09EA",
      "U+09EB", "U+09EC", "U+09ED", "U+09EE", "U+09EF">>,
    <<"U+0A66", "U+0A67", "U+0A68", "U+0A69", "U+0A6A",
      "U+0A6B", "U+0A6C", "U+0A6D", "U+0A6E", "U+0A6F">>,
    <<"U+0AE6", "U+0AE7", "U+0AE8", "U+0AE9", "U+0AEA",
      "U+0AEB", "U+0AEC", "U+0AED", "U+0AEE", "U+0AEF">>,
    <<"U+0B66", "U+0B67", "U+0B68", "U+0B69", "U+0B6A",
      "U+0B6B", "U+0B6C", "U+0B6D", "U+0B6E", "U+0B6F">>,
    <<"U+0BE6", "U+0BE7", "U+0BE8", "U+0BE9", "U+0BEA",
      "U+0BEB", "U+0BEC", "U+0BED", "U+0BEE", "U+0BEF">>,
    <<"U+0C66", "U+0C67", "U+0C68", "U+0C69", "U+0C6A",
      "U+0C6B", "U+0C6C", "U+0C6D", "U+0C6E", "U+0C6F">>,
    <<"U+0CE6", "U+0CE7", "U+0CE8", "U+0CE9", "U+0CEA",
      "U+0CEB", "U+0CEC", "U+0CED", "U+0CEE", "U+0CEF">>,
    <<"U+0D66", "U+0D67", "U+0D68", "U+0D69", "U+0D6A",
      "U+0D6B", "U+0D6C", "U+0D6D", "U+0D6E", "U+0D6F">>,
    <<"U+0DE6", "U+0DE7", "U+0DE8", "U+0DE9", "U+0DEA",
      "U+0DEB", "U+0DEC", "U+0DED", "U+0DEE", "U+0DEF">>,
    <<"U+0E50", "U+0E51", "U+0E52", "U+0E53", "U+0E54",
      "U+0E55", "U+0E56", "U+0E57", "U+0E58", "U+0E59">>,
    <<"U+0ED0", "U+0ED1", "U+0ED2", "U+0ED3", "U+0ED4",
      "U+0ED5", "U+0ED6", "U+0ED7", "U+0ED8", "U+0ED9">>,
    <<"U+0F20", "U+0F21", "U+0F22", "U+0F23", "U+0F24",
      "U+0F25", "U+0F26", "U+0F27", "U+0F28", "U+0F29">>,
    <<"U+1040", "U+1041", "U+1042", "U+1043", "U+1044",
      "U+1045", "U+1046", "U+1047", "U+1048", "U+1049">>,
    <<"U+1090", "U+1091", "U+1092", "U+1093", "U+1094",
      "U+1095", "U+1096", "U+1097", "U+1098", "U+1099">>,
    <<"U+17E0", "U+17E1", "U+17E2", "U+17E3", "U+17E4",
      "U+17E5", "U+17E6", "U+17E7", "U+17E8", "U+17E9">>,
    <<"U+1810", "U+1811", "U+1812", "U+1813", "U+1814",
      "U+1815", "U+1816", "U+1817", "U+1818", "U+1819">>,
    <<"U+1946", "U+1947", "U+1948", "U+1949", "U+194A",
      "U+194B", "U+194C", "U+194D", "U+194E", "U+194F">>,
    <<"U+19D0", "U+19D1", "U+19D2", "U+19D3", "U+19D4",
      "U+19D5", "U+19D6", "U+19D7", "U+19D8", "U+19D9">>,
    <<"U+1A80", "U+1A81", "U+1A82", "U+1A83", "U+1A84",
      "U+1A85", "U+1A86", "U+1A87", "U+1A88", "U+1A89">>,
    <<"U+1A90", "U+1A91", "U+1A92", "U+1A93", "U+1A94",
      "U+1A95", "U+1A96", "U+1A97", "U+1A98", "U+1A99">>,
    <<"U+1B50", "U+1B51", "U+1B52", "U+1B53", "U+1B54",
      "U+1B55", "U+1B56", "U+1B57", "U+1B58", "U+1B59">>,
    <<"U+1BB0", "U+1BB1", "U+1BB2", "U+1BB3", "U+1BB4",
      "U+1BB5", "U+1BB6", "U+1BB7", "U+1BB8", "U+1BB9">>,
    <<"U+1C40", "U+1C41", "U+1C42", "U+1C43", "U+1C44",
      "U+1C45", "U+1C46", "U+1C47", "U+1C48", "U+1C49">>,
    <<"U+1C50", "U+1C51", "U+1C52", "U+1C53", "U+1C54",
      "U+1C55", "U+1C56", "U+1C57", "U+1C58", "U+1C59">>,
    <<"U+A620", "U+A621", "U+A622", "U+A623", "U+A624",
      "U+A625", "U+A626", "U+A627", "U+A628", "U+A629">>,
    <<"U+A8D0", "U+A8D1", "U+A8D2", "U+A8D3", "U+A8D4",
      "U+A8D5", "U+A8D6", "U+A8D7", "U+A8D8", "U+A8D9">>,
    <<"U+A900", "U+A901", "U+A902", "U+A903", "U+A904",
      "U+A905", "U+A906", "U+A907", "U+A908", "U+A909">>,
    <<"U+A9D0", "U+A9D1", "U+A9D2", "U+A9D3", "U+A9D4",
      "U+A9D5", "U+A9D6", "U+A9D7", "U+A9D8", "U+A9D9">>,
    <<"U+A9F0", "U+A9F1", "U+A9F2", "U+A9F3", "U+A9F4",
      "U+A9F5", "U+A9F6", "U+A9F7", "U+A9F8", "U+A9F9">>,
    <<"U+AA50", "U+AA51", "U+AA52", "U+AA53", "U+AA54",
      "U+AA55", "U+AA56", "U+AA57", "U+AA58", "U+AA59">>,
    <<"U+ABF0", "U+ABF1", "U+ABF2", "U+ABF3", "U+ABF4",
      "U+ABF5", "U+ABF6", "U+ABF7", "U+ABF8", "U+ABF9">>,
    <<"U+FF10", "U+FF11", "U+FF12", "U+FF13", "U+FF14",
      "U+FF15", "U+FF16", "U+FF17", "U+FF18", "U+FF19">>,
    <<"U+104A0", "U+104A1", "U+104A2", "U+104A3", "U+104A4",
      "U+104A5", "U+104A6", "U+104A7", "U+104A8", "U+104A9">>,
    <<"U+10D30", "U+10D31", "U+10D32", "U+10D33", "U+10D34",
      "U+10D35", "U+10D36", "U+10D37", "U+10D38", "U+10D39">>,
    <<"U+11066", "U+11067", "U+11068", "U+11069", "U+1106A",
      "U+1106B", "U+1106C", "U+1106D", "U+1106E", "U+1106F">>,
    <<"U+110F0", "U+110F1", "U+110F2", "U+110F3", "U+110F4",
      "U+110F5", "U+110F6", "U+110F7", "U+110F8", "U+110F9">>,
    <<"U+11136", "U+11137", "U+11138", "U+11139", "U+1113A",
      "U+1113B", "U+1113C", "U+1113D", "U+1113E", "U+1113F">>,
    <<"U+111D0", "U+111D1", "U+111D2", "U+111D3", "U+111D4",
      "U+111D5", "U+111D6", "U+111D7", "U+111D8", "U+111D9">>,
    <<"U+112F0", "U+112F1", "U+112F2", "U+112F3", "U+112F4",
      "U+112F5", "U+112F6", "U+112F7", "U+112F8", "U+112F9">>,
    <<"U+11450", "U+11451", "U+11452", "U+11453", "U+11454",
      "U+11455", "U+11456", "U+11457", "U+11458", "U+11459">>,
    <<"U+114D0", "U+114D1", "U+114D2", "U+114D3", "U+114D4",
      "U+114D5", "U+114D6", "U+114D7", "U+114D8", "U+114D9">>,
    <<"U+11650", "U+11651", "U+11652", "U+11653", "U+11654",
      "U+11655", "U+11656", "U+11657", "U+11658", "U+11659">>,
    <<"U+116C0", "U+116C1", "U+116C2", "U+116C3", "U+116C4",
      "U+116C5", "U+116C6", "U+116C7", "U+116C8", "U+116C9">>,
    <<"U+11730", "U+11731", "U+11732", "U+11733", "U+11734",
      "U+11735", "U+11736", "U+11737", "U+11738", "U+11739">>,
    <<"U+118E0", "U+118E1", "U+118E2", "U+118E3", "U+118E4",
      "U+118E5", "U+118E6", "U+118E7", "U+118E8", "U+118E9">>,
    <<"U+11950", "U+11951", "U+11952", "U+11953", "U+11954",
      "U+11955", "U+11956", "U+11957", "U+11958", "U+11959">>,
    <<"U+11C50", "U+11C51", "U+11C52", "U+11C53", "U+11C54",
      "U+11C55", "U+11C56", "U+11C57", "U+11C58", "U+11C59">>,
    <<"U+11D50", "U+11D51", "U+11D52", "U+11D53", "U+11D54",
      "U+11D55", "U+11D56", "U+11D57", "U+11D58", "U+11D59">>,
    <<"U+11DA0", "U+11DA1", "U+11DA2", "U+11DA3", "U+11DA4",
      "U+11DA5", "U+11DA6", "U+11DA7", "U+11DA8", "U+11DA9">>,
    <<"U+16A60", "U+16A61", "U+16A62", "U+16A63", "U+16A64",
      "U+16A65", "U+16A66", "U+16A67", "U+16A68", "U+16A69">>,
    <<"U+16AC0", "U+16AC1", "U+16AC2", "U+16AC3", "U+16AC4",
      "U+16AC5", "U+16AC6", "U+16AC7", "U+16AC8", "U+16AC9">>,
    <<"U+16B50", "U+16B51", "U+16B52", "U+16B53", "U+16B54",
      "U+16B55", "U+16B56", "U+16B57", "U+16B58", "U+16B59">>,
    <<"U+1D7CE", "U+1D7CF", "U+1D7D0", "U+1D7D1", "U+1D7D2",
      "U+1D7D3", "U+1D7D4", "U+1D7D5", "U+1D7D6", "U+1D7D7">>,
    <<"U+1D7D8", "U+1D7D9", "U+1D7DA", "U+1D7DB", "U+1D7DC",
      "U+1D7DD", "U+1D7DE", "U+1D7DF", "U+1D7E0", "U+1D7E1">>,
    <<"U+1D7E2", "U+1D7E3", "U+1D7E4", "U+1D7E5", "U+1D7E6",
      "U+1D7E7", "U+1D7E8", "U+1D7E9", "U+1D7EA", "U+1D7EB">>,
    <<"U+1D7EC", "U+1D7ED", "U+1D7EE", "U+1D7EF", "U+1D7F0",
      "U+1D7F1", "U+1D7F2", "U+1D7F3", "U+1D7F4", "U+1D7F5">>,
    <<"U+1D7F6", "U+1D7F7", "U+1D7F8", "U+1D7F9", "U+1D7FA",
      "U+1D7FB", "U+1D7FC", "U+1D7FD", "U+1D7FE", "U+1D7FF">>,
    <<"U+1E140", "U+1E141", "U+1E142", "U+1E143", "U+1E144",
      "U+1E145", "U+1E146", "U+1E147", "U+1E148", "U+1E149">>,
    <<"U+1E2F0", "U+1E2F1", "U+1E2F2", "U+1E2F3", "U+1E2F4",
      "U+1E2F5", "U+1E2F6", "U+1E2F7", "U+1E2F8", "U+1E2F9">>,
    <<"U+1E950", "U+1E951", "U+1E952", "U+1E953", "U+1E954",
      "U+1E955", "U+1E956", "U+1E957", "U+1E958", "U+1E959">>,
    <<"U+1FBF0", "U+1FBF1", "U+1FBF2", "U+1FBF3", "U+1FBF4",
      "U+1FBF5", "U+1FBF6", "U+1FBF7", "U+1FBF8", "U+1FBF9">>
  >>

\* the characters \d matches
Digits ==
  Range(AsciiDigits) \cup {UnicodeDigits[b][k] : b \in 1..Len(UnicodeDigits), k \in 1..10}

\* int() of each digit
DigitValues ==
  [c \in Digits |->
     CHOOSE d \in 0..9 :
       \/ AsciiDigits[d + 1] = c
       \/ \E b \in 1..Len(UnicodeDigits) : UnicodeDigits[b][d + 1] = c]

DigitValue(c) == DigitValues[c]

\* re.search(r"(\d{4})", sheet): <<m.group(1)>>, the first four consecutive
\* digits of the name as text, or <<>> when the name holds none
search_year(name) ==
  LET hits == {i \in 1..(Len(name) - 3) : \A k \in 0..3 : name[i + k] \in Digits}
  IN IF hits = {} THEN <<>>
     ELSE LET i == CHOOSE h \in hits : \A g \in hits : h <= g
          IN <<SubSeq(name, i, i + 3)>>

\* %Y of strptime: the number four digits spell
YearValue(year) ==
  1000 * DigitValue(year[1]) + 100 * DigitValue(year[2])
  + 10 * DigitValue(year[3]) + DigitValue(year[4])

\* the days a Timestamp (nanoseconds in 64 bits) can hold at midnight:
\* 1677-09-22 to 2262-04-11
InTimestampRange(y, m, d) ==
  /\ y > 1677 \/ (y = 1677 /\ (m > 9 \/ (m = 9 /\ d >= 22)))
  /\ y < 2262 \/ (y = 2262 /\ (m < 4 \/ (m = 4 /\ d <= 11)))

IsLeap(y) == (y % 4 = 0 /\ y % 100 # 0) \/ y % 400 = 0

DaysInMonth(y, m) ==
  IF m = 2 THEN (IF IsLeap(y) THEN 29 ELSE 28)
  ELSE IF m \in {4, 6, 9, 11} THEN 30 ELSE 31

\* pd.to_datetime(cell + "/" + year, format="%d/%m/%Y", errors="coerce") of a
\* cell reading "d/m": the date, or NaT when there is no such day or a
\* Timestamp cannot hold it
to_datetime_coerce(cell, year) ==
  LET y == YearValue(year)
  IN IF /\ y >= 1
        /\ cell[2] \in 1..12
        /\ cell[1] \in 1..DaysInMonth(y, cell[2])
        /\ InTimestampRange(y, cell[2], cell[1])
     THEN <<[year |-> y, month |-> cell[2], day |-> cell[1]]>>
     ELSE NaN

\* pd.to_numeric(cell, errors="coerce")
to_numeric_coerce(cell) == IF cell.kind = "num" THEN <<cell.v>> ELSE NaN

DateLess(a, b) ==
  \/ a.year < b.year
  \/ a.year = b.year /\ a.month < b.month
  \/ a.year = b.year /\ a.month = b.month /\ a.day < b.day

\* sort_values("date"): ascending.  The default sort kind (quicksort) is not
\* stable, so rows of the same date may come out in any order: the set of
\* the orders the call can return
sort_by_date(rows) ==
  LET ascending(r, p) ==
        \A i \in 1..(Len(r) - 1) : ~DateLess(r[p[i + 1]].date, r[p[i]].date)
      orders(r) == {[i \in 1..Len(r) |-> r[p[i]]] :
                      p \in {q \in Permutations(1..Len(r)) : ascending(r, q)}}
  IN UNION {orders(r) : r \in {rows}}

\* the frame one sheet contributes (lines 86-94); the date cell of a kept row
\* is the date itself, the amount an option
sheet_frame(sheet, year) ==
  LET parsed == [i \in 1..Len(sheet.rows) |->
                   [date |-> to_datetime_coerce(sheet.rows[i][COL_DATE], year),
                    amount |-> to_numeric_coerce(sheet.rows[i][COL_AMOUNT])]]
      kept   == SelectSeq(parsed, LAMBDA r : r.date # NaN)
  IN [i \in 1..Len(kept) |->
        [c \in {"date", COL_AMOUNT} |->
           IF c = "date" THEN kept[i].date[1] ELSE kept[i].amount]]

\* a sheet is processed when it holds both columns and its name holds a year
sheet_accepted(sheet) ==
  /\ HasColumn(sheet, COL_DATE) /\ HasColumn(sheet, COL_AMOUNT)
  /\ search_year(sheet.name) # <<>>

\* load_and_clean_price_from_workbook, had it kept only the last sheet's frame
load_and_clean_price_last_sheet(wb) ==
  LET accepted == SelectSeq(wb, sheet_accepted)
      last     == accepted[Len(accepted)]
  IN IF accepted = <<>> THEN {Raised("ValueError")}
     ELSE {Ok(DataFrame(<<"date", COL_AMOUNT>>, rows)) :
             rows \in sort_by_date(sheet_frame(last, search_year(last.name)[1]))}

\* load_and_clean_price_from_workbook, had the result not been sorted
load_and_clean_price_unsorted(wb) ==
  LET accepted == SelectSeq(wb, sheet_accepted)
      frames   == [i \in 1..Len(accepted) |->
                     sheet_frame(accepted[i], search_year(accepted[i].name)[1])]
  IN IF frames = <<>> THEN {Raised("ValueError")}
     ELSE {Ok(DataFrame(<<"date", COL_AMOUNT>>, Flatten(frames)))}

\* Read the sheets, build a clean daily price dataframe (date, Tot. H.T): the
\* set of the outcomes of the call, one for each order the sort may leave
\* the rows of one date in
load_and_clean_price_from_workbook(wb) ==
  LET accepted == SelectSeq(wb, sheet_accepted)
      frames   == [i \in 1..Len(accepted) |->
                     sheet_frame(accepted[i], search_year(accepted[i].name)[1])]
  IN IF frames = <<>> THEN {Raised("ValueError")}
     ELSE {Ok(DataFrame(<<"date", COL_AMOUNT>>, rows)) :
             rows \in sort_by_date(Flatten(frames))}

\* agg_monthly_price, had it kept the largest amount of a month, not the sum
agg_monthly_price_max(df_all) ==
  LET key(r)  == <<r.date.year, r.date.month>>
      keys    == SortPeriods({key(r) : r \in Range(df_all.rows)})
      grp(k)  == SelectSeq(df_all.rows, LAMBDA r : key(r) = k)
      vals(k) == {IF r[COL_AMOUNT] = NaN THEN 0 ELSE r[COL_AMOUNT][1] : r \in Range(grp(k))}
      tot(k)  == CHOOSE v \in vals(k) : \A w \in vals(k) : w <= v
  IN DataFrame(<<"year", "month", "total_price", "x_label">>,
               [i \in 1..Len(keys) |->
                  [year |-> keys[i][1], month |-> keys[i][2],
                   total_price |-> tot(keys[i]),
                   x_label |-> x_label(keys[i][1], keys[i][2])]])

\* Aggregate daily price to monthly level
agg_monthly_price(df_all) ==
  LET key(r) == <<r.date.year, r.date.month>>
      keys   == SortPeriods({key(r) : r \in Range(df_all.rows)})
      grp(k) == SelectSeq(df_all.rows, LAMBDA r : key(r) = k)
      tot(k) == SumSkipNa([i \in 1..Len(grp(k)) |-> grp(k)[i][COL_AMOUNT]])
  IN DataFrame(<<"year", "month", "total_price", "x_label">>,
               [i \in 1..Len(keys) |->
                  [year |-> keys[i][1], month |-> keys[i][2],
                   total_price |-> tot(keys[i]),
                   x_label |-> x_label(keys[i][1], keys[i][2])]])

-----------------------------------------------------------------------------
(* Weight pipeline *)

WeightColumns ==
  <<"reference", "transporter", "weight", "netweight", "stock_in_at",
    "stock_in_pda_version">>

\* A column name, as a file or a cursor spells it, is a text: the sequence of
\* the code points of its characters ("Box" is <<66, 111, 120>>).

\* str.lower() of one character, as runs <<first, last, step, shift>> of code
\* points: every step-th code point from first to last has its lower-case
\* form shift code points further (Unicode 14.0, as in Python 3.11)
LowerRuns ==
  <<<<65, 90, 1, 32>>, <<192, 214, 1, 32>>, <<216, 222, 1, 32>>,
    <<256, 302, 2, 1>>, <<306, 310, 2, 1>>, <<313, 327, 2, 1>>,
    <<330, 374, 2, 1>>, <<376, 376, 1, -121>>, <<377, 381, 2, 1>>,
    <<385, 385, 1, 210>>, <<386, 388, 2, 1>>, <<390, 390, 1, 206>>,
    <<391, 391, 1, 1>>, <<393, 394, 1, 205>>, <<395, 395, 1, 1>>,
    <<398, 398, 1, 79>>, <<399, 399, 1, 202>>, <<400, 400, 1, 203>>,
    <<401, 401, 1, 1>>, <<403, 403, 1, 205>>, <<404, 404, 1, 207>>,
    <<406, 406, 1, 211>>, <<407, 407, 1, 209>>, <<408, 408, 1, 1>>,
    <<412, 412, 1, 211>>, <<413, 413, 1, 213>>, <<415, 415, 1, 214>>,
    <<416, 420, 2, 1>>, <<422, 422, 1, 218>>, <<423, 423, 1, 1>>,
    <<425, 425, 1, 218>>, <<428, 428, 1, 1>>, <<430, 430, 1, 218>>,
    <<431, 431, 1, 1>>, <<433, 434, 1, 217>>, <<435, 437, 2, 1>>,
    <<439, 439, 1, 219>>, <<440, 440, 1, 1>>, <<444, 444, 1, 1>>,
    <<452, 452, 1, 2>>, <<453, 453, 1, 1>>, <<455, 455, 1, 2>>,
    <<456, 456, 1, 1>>, <<458, 458, 1, 2>>, <<459, 475, 2, 1>>,
    <<478, 494, 2, 1>>, <<497, 497, 1, 2>>, <<498, 500, 2, 1>>,
    <<502, 502, 1, -97>>, <<503, 503, 1, -56>>, <<504, 542, 2, 1>>,
    <<544, 544, 1, -130>>, <<546, 562, 2, 1>>, <<570, 570, 1, 10795>>,
    <<571, 571, 1, 1>>, <<573, 573, 1, -163>>, <<574, 574, 1, 10792>>,
    <<577, 577, 1, 1>>, <<579, 579, 1, -195>>, <<580, 580, 1, 69>>,
    <<581, 581, 1, 71>>, <<582, 590, 2, 1>>, <<880, 882, 2, 1>>,
    <<886, 886, 1, 1>>, <<895, 895, 1, 116>>, <<902, 902, 1, 38>>,
    <<904, 906, 1, 37>>, <<908, 908, 1, 64>>, <<910, 911, 1, 63>>,
    <<913, 929, 1, 32>>, <<932, 939, 1, 32>>, <<975, 975, 1, 8>>,
    <<984, 1006, 2, 1>>, <<1012, 1012, 1, -60>>, <<1015, 1015, 1, 1>>,
    <<1017, 1017, 1, -7>>, <<1018, 1018, 1, 1>>, <<1021, 1023, 1, -130>>,
    <<1024, 1039, 1, 80>>, <<1040, 1071, 1, 32>>, <<1120, 1152, 2, 1>>,
    <<1162, 1214, 2, 1>>, <<1216, 1216, 1, 15>>, <<1217, 1229, 2, 1>>,
    <<1232, 1326, 2, 1>>, <<1329, 1366, 1, 48>>, <<4256, 4293, 1, 7264>>,
    <<4295, 4295, 1, 7264>>, <<4301, 4301, 1, 7264>>,
    <<5024, 5103, 1, 38864>>, <<5104, 5109, 1, 8>>, <<7312, 7354, 1, -3008>>,
    <<7357, 7359, 1, -3008>>, <<7680, 7828, 2, 1>>, <<7838, 7838, 1, -7615>>,
    <<7840, 7934, 2, 1>>, <<7944, 7951, 1, -8>>, <<7960, 7965, 1, -8>>,
    <<7976, 7983, 1, -8>>, <<7992, 7999, 1, -8>>, <<8008, 8013, 1, -8>>,
    <<8025, 8031, 2, -8>>, <<8040, 8047, 1, -8>>, <<8072, 8079, 1, -8>>,
    <<8088, 8095, 1, -8>>, <<8104, 8111, 1, -8>>, <<8120, 8121, 1, -8>>,
    <<8122, 8123, 1, -74>>, <<8124, 8124, 1, -9>>, <<8136, 8139, 1, -86>>,
    <<8140, 8140, 1, -9>>, <<8152, 8153, 1, -8>>, <<8154, 8155, 1, -100>>,
    <<8168, 8169, 1, -8>>, <<8170, 8171, 1, -112>>, <<8172, 8172, 1, -7>>,
    <<8184, 8185, 1, -128>>, <<8186, 8187, 1, -126>>, <<8188, 8188, 1, -9>>,
    <<8486, 8486, 1, -7517>>, <<8490, 8490, 1, -8383>>,
    <<8491, 8491, 1, -8262>>, <<8498, 8498, 1, 28>>, <<8544, 8559, 1, 16>>,
    <<8579, 8579, 1, 1>>, <<9398, 9423, 1, 26>>, <<11264, 11311, 1, 48>>,
    <<11360, 11360, 1, 1>>, <<11362, 11362, 1, -10743>>,
    <<11363, 11363, 1, -3814>>, <<11364, 11364, 1, -10727>>,
    <<11367, 11371, 2, 1>>, <<11373, 11373, 1, -10780>>,
    <<11374, 11374, 1, -10749>>, <<11375, 11375, 1, -10783>>,
    <<11376, 11376, 1, -10782>>, <<11378, 11378, 1, 1>>,
    <<11381, 11381, 1, 1>>, <<11390, 11391, 1, -10815>>,
    <<11392, 11490, 2, 1>>, <<11499, 11501, 2, 1>>, <<11506, 11506, 1, 1>>,
    <<42560, 42604, 2, 1>>, <<42624, 42650, 2, 1>>, <<42786, 42798, 2, 1>>,
    <<42802, 42862, 2, 1>>, <<42873, 42875, 2, 1>>,
    <<42877, 42877, 1, -35332>>, <<42878, 42886, 2, 1>>,
    <<42891, 42891, 1, 1>>, <<42893, 42893, 1, -42280>>,
    <<42896, 42898, 2, 1>>, <<42902, 42920, 2, 1>>,
    <<42922, 42922, 1, -42308>>, <<42923, 42923, 1, -42319>>,
    <<42924, 42924, 1, -42315>>, <<42925, 42925, 1, -42305>>,
    <<42926, 42926, 1, -42308>>, <<42928, 42928, 1, -42258>>,
    <<42929, 42929, 1, -42282>>, <<42930, 42930, 1, -42261>>,
    <<42931, 42931, 1, 928>>, <<42932, 42946, 2, 1>>,
    <<42948, 42948, 1, -48>>, <<42949, 42949, 1, -42307>>,
    <<42950, 42950, 1, -35384>>, <<42951, 42953, 2, 1>>,
    <<42960, 42960, 1, 1>>, <<42966, 42968, 2, 1>>, <<42997, 42997, 1, 1>>,
    <<65313, 65338, 1, 32>>, <<66560, 66599, 1, 40>>,
    <<66736, 66771, 1, 40>>, <<66928, 66938, 1, 39>>,
    <<66940, 66954, 1, 39>>, <<66956, 66962, 1, 39>>,
    <<66964, 66965, 1, 39>>, <<68736, 68786, 1, 64>>,
    <<71840, 71871, 1, 32>>, <<93760, 93791, 1, 32>>,
    <<125184, 125217, 1, 34>>>>

\* the code points with the property Case_Ignorable, as ranges <<first, last>>
CaseIgnorableRanges ==
  <<<<39, 39>>, <<46, 46>>, <<58, 58>>, <<94, 94>>, <<96, 96>>, <<168, 168>>,
    <<173, 173>>, <<175, 175>>, <<180, 180>>, <<183, 184>>, <<688, 879>>,
    <<884, 885>>, <<890, 890>>, <<900, 901>>, <<903, 903>>, <<1155, 1161>>,
    <<1369, 1369>>, <<1375, 1375>>, <<1425, 1469>>, <<1471, 1471>>,
    <<1473, 1474>>, <<1476, 1477>>, <<1479, 1479>>, <<1524, 1524>>,
    <<1536, 1541>>, <<1552, 1562>>, <<1564, 1564>>, <<1600, 1600>>,
    <<1611, 1631>>, <<1648, 1648>>, <<1750, 1757>>, <<1759, 1768>>,
    <<1770, 1773>>, <<1807, 1807>>, <<1809, 1809>>, <<1840, 1866>>,
    <<1958, 1968>>, <<2027, 2037>>, <<2042, 2042>>, <<2045, 2045>>,
    <<2070, 2093>>, <<2137, 2139>>, <<2184, 2184>>, <<2192, 2193>>,
    <<2200, 2207>>, <<2249, 2306>>, <<2362, 2362>>, <<2364, 2364>>,
    <<2369, 2376>>, <<2381, 2381>>, <<2385, 2391>>, <<2402, 2403>>,
    <<2417, 2417>>, <<2433, 2433>>, <<2492, 2492>>, <<2497, 2500>>,
    <<2509, 2509>>, <<2530, 2531>>, <<2558, 2558>>, <<2561, 2562>>,
    <<2620, 2620>>, <<2625, 2626>>, <<2631, 2632>>, <<2635, 2637>>,
    <<2641, 2641>>, <<2672, 2673>>, <<2677, 2677>>, <<2689, 2690>>,
    <<2748, 2748>>, <<2753, 2757>>, <<2759, 2760>>, <<2765, 2765>>,
    <<2786, 2787>>, <<2810, 2815>>, <<2817, 2817>>, <<2876, 2876>>,
    <<2879, 2879>>, <<2881, 2884>>, <<2893, 2893>>, <<2901, 2902>>,
    <<2914, 2915>>, <<2946, 2946>>, <<3008, 3008>>, <<3021, 3021>>,
    <<3072, 3072>>, <<3076, 3076>>, <<3132, 3132>>, <<3134, 3136>>,
    <<3142, 3144>>, <<3146, 3149>>, <<3157, 3158>>, <<3170, 3171>>,
    <<3201, 3201>>, <<3260, 3260>>, <<3263, 3263>>, <<3270, 3270>>,
    <<3276, 3277>>, <<3298, 3299>>, <<3328, 3329>>, <<3387, 3388>>,
    <<3393, 3396>>, <<3405, 3405>>, <<3426, 3427>>, <<3457, 3457>>,
    <<3530, 3530>>, <<3538, 3540>>, <<3542, 3542>>, <<3633, 3633>>,
    <<3636, 3642>>, <<3654, 3662>>, <<3761, 3761>>, <<3764, 3772>>,
    <<3782, 3782>>, <<3784, 3789>>, <<3864, 3865>>, <<3893, 3893>>,
    <<3895, 3895>>, <<3897, 3897>>, <<3953, 3966>>, <<3968, 3972>>,
    <<3974, 3975>>, <<3981, 3991>>, <<3993, 4028>>, <<4038, 4038>>,
    <<4141, 4144>>, <<4146, 4151>>, <<4153, 4154>>, <<4157, 4158>>,
    <<4184, 4185>>, <<4190, 4192>>, <<4209, 4212>>, <<4226, 4226>>,
    <<4229, 4230>>, <<4237, 4237>>, <<4253, 4253>>, <<4348, 4348>>,
    <<4957, 4959>>, <<5906, 5908>>, <<5938, 5939>>, <<5970, 5971>>,
    <<6002, 6003>>, <<6068, 6069>>, <<6071, 6077>>, <<6086, 6086>>,
    <<6089, 6099>>, <<6103, 6103>>, <<6109, 6109>>, <<6155, 6159>>,
    <<6211, 6211>>, <<6277, 6278>>, <<6313, 6313>>, <<6432, 6434>>,
    <<6439, 6440>>, <<6450, 6450>>, <<6457, 6459>>, <<6679, 6680>>,
    <<6683, 6683>>, <<6742, 6742>>, <<6744, 6750>>, <<6752, 6752>>,
    <<6754, 6754>>, <<6757, 6764>>, <<6771, 6780>>, <<6783, 6783>>,
    <<6823, 6823>>, <<6832, 6862>>, <<6912, 6915>>, <<6964, 6964>>,
    <<6966, 6970>>, <<6972, 6972>>, <<6978, 6978>>, <<7019, 7027>>,
    <<7040, 7041>>, <<7074, 7077>>, <<7080, 7081>>, <<7083, 7085>>,
    <<7142, 7142>>, <<7144, 7145>>, <<7149, 7149>>, <<7151, 7153>>,
    <<7212, 7219>>, <<7222, 7223>>, <<7288, 7293>>, <<7376, 7378>>,
    <<7380, 7392>>, <<7394, 7400>>, <<7405, 7405>>, <<7412, 7412>>,
    <<7416, 7417>>, <<7468, 7530>>, <<7544, 7544>>, <<7579, 7679>>,
    <<8125, 8125>>, <<8127, 8129>>, <<8141, 8143>>, <<8157, 8159>>,
    <<8173, 8175>>, <<8189, 8190>>, <<8203, 8207>>, <<8216, 8217>>,
    <<8228, 8228>>, <<8231, 8231>>, <<8234, 8238>>, <<8288, 8292>>,
    <<8294, 8303>>, <<8305, 8305>>, <<8319, 8319>>, <<8336, 8348>>,
    <<8400, 8432>>, <<11388, 11389>>, <<11503, 11505>>, <<11631, 11631>>,
    <<11647, 11647>>, <<11744, 11775>>, <<11823, 11823>>, <<12293, 12293>>,
    <<12330, 12333>>, <<12337, 12341>>, <<12347, 12347>>, <<12441, 12446>>,
    <<12540, 12542>>, <<40981, 40981>>, <<42232, 42237>>, <<42508, 42508>>,
    <<42607, 42610>>, <<42612, 42621>>, <<42623, 42623>>, <<42652, 42655>>,
    <<42736, 42737>>, <<42752, 42785>>, <<42864, 42864>>, <<42888, 42890>>,
    <<42994, 42996>>, <<43000, 43001>>, <<43010, 43010>>, <<43014, 43014>>,
    <<43019, 43019>>, <<43045, 43046>>, <<43052, 43052>>, <<43204, 43205>>,
    <<43232, 43249>>, <<43263, 43263>>, <<43302, 43309>>, <<43335, 43345>>,
    <<43392, 43394>>, <<43443, 43443>>, <<43446, 43449>>, <<43452, 43453>>,
    <<43471, 43471>>, <<43493, 43494>>, <<43561, 43566>>, <<43569, 43570>>,
    <<43573, 43574>>, <<43587, 43587>>, <<43596, 43596>>, <<43632, 43632>>,
    <<43644, 43644>>, <<43696, 43696>>, <<43698, 43700>>, <<43703, 43704>>,
    <<43710, 43711>>, <<43713, 43713>>, <<43741, 43741>>, <<43756, 43757>>,
    <<43763, 43764>>, <<43766, 43766>>, <<43867, 43871>>, <<43881, 43883>>,
    <<44005, 44005>>, <<44008, 44008>>, <<44013, 44013>>, <<64286, 64286>>,
    <<64434, 64450>>, <<65024, 65039>>, <<65043, 65043>>, <<65056, 65071>>,
    <<65106, 65106>>, <<65109, 65109>>, <<65279, 65279>>, <<65287, 65287>>,
    <<65294, 65294>>, <<65306, 65306>>, <<65342, 65342>>, <<65344, 65344>>,
    <<65392, 65392>>, <<65438, 65439>>, <<65507, 65507>>, <<65529, 65531>>,
    <<66045, 66045>>, <<66272, 66272>>, <<66422, 66426>>, <<67456, 67461>>,
    <<67463, 67504>>, <<67506, 67514>>, <<68097, 68099>>, <<68101, 68102>>,
    <<68108, 68111>>, <<68152, 68154>>, <<68159, 68159>>, <<68325, 68326>>,
    <<68900, 68903>>, <<69291, 69292>>, <<69446, 69456>>, <<69506, 69509>>,
    <<69633, 69633>>, <<69688, 69702>>, <<69744, 69744>>, <<69747, 69748>>,
    <<69759, 69761>>, <<69811, 69814>>, <<69817, 69818>>, <<69821, 69821>>,
    <<69826, 69826>>, <<69837, 69837>>, <<69888, 69890>>, <<69927, 69931>>,
    <<69933, 69940>>, <<70003, 70003>>, <<70016, 70017>>, <<70070, 70078>>,
    <<70089, 70092>>, <<70095, 70095>>, <<70191, 70193>>, <<70196, 70196>>,
    <<70198, 70199>>, <<70206, 70206>>, <<70367, 70367>>, <<70371, 70378>>,
    <<70400, 70401>>, <<70459, 70460>>, <<70464, 70464>>, <<70502, 70508>>,
    <<70512, 70516>>, <<70712, 70719>>, <<70722, 70724>>, <<70726, 70726>>,
    <<70750, 70750>>, <<70835, 70840>>, <<70842, 70842>>, <<70847, 70848>>,
    <<70850, 70851>>, <<71090, 71093>>, <<71100, 71101>>, <<71103, 71104>>,
    <<71132, 71133>>, <<71219, 71226>>, <<71229, 71229>>, <<71231, 71232>>,
    <<71339, 71339>>, <<71341, 71341>>, <<71344, 71349>>, <<71351, 71351>>,
    <<71453, 71455>>, <<71458, 71461>>, <<71463, 71467>>, <<71727, 71735>>,
    <<71737, 71738>>, <<71995, 71996>>, <<71998, 71998>>, <<72003, 72003>>,
    <<72148, 72151>>, <<72154, 72155>>, <<72160, 72160>>, <<72193, 72202>>,
    <<72243, 72248>>, <<72251, 72254>>, <<72263, 72263>>, <<72273, 72278>>,
    <<72281, 72283>>, <<72330, 72342>>, <<72344, 72345>>, <<72752, 72758>>,
    <<72760, 72765>>, <<72767, 72767>>, <<72850, 72871>>, <<72874, 72880>>,
    <<72882, 72883>>, <<72885, 72886>>, <<73009, 73014>>, <<73018, 73018>>,
    <<73020, 73021>>, <<73023, 73029>>, <<73031, 73031>>, <<73104, 73105>>,
    <<73109, 73109>>, <<73111, 73111>>, <<73459, 73460>>, <<78896, 78904>>,
    <<92912, 92916>>, <<92976, 92982>>, <<92992, 92995>>, <<94031, 94031>>,
    <<94095, 94111>>, <<94176, 94177>>, <<94179, 94180>>, <<110576, 110579>>,
    <<110581, 110587>>, <<110589, 110590>>, <<113821, 113822>>,
    <<113824, 113827>>, <<118528, 118573>>, <<118576, 118598>>,
    <<119143, 119145>>, <<119155, 119170>>, <<119173, 119179>>,
    <<119210, 119213>>, <<119362, 119364>>, <<121344, 121398>>,
    <<121403, 121452>>, <<121461, 121461>>, <<121476, 121476>>,
    <<121499, 121503>>, <<121505, 121519>>, <<122880, 122886>>,
    <<122888, 122904>>, <<122907, 122913>>, <<122915, 122916>>,
    <<122918, 122922>>, <<123184, 123197>>, <<123566, 123566>>,
    <<123628, 123631>>, <<125136, 125142>>, <<125252, 125259>>,
    <<127995, 127999>>, <<917505, 917505>>, <<917536, 917631>>,
    <<917760, 917999>>>>

\* the code points with the property Cased that are not Case_Ignorable, as
\* ranges <<first, last>>
CasedRanges ==
  <<<<65, 90>>, <<97, 122>>, <<170, 170>>, <<181, 181>>, <<186, 186>>,
    <<192, 214>>, <<216, 246>>, <<248, 442>>, <<444, 447>>, <<452, 659>>,
    <<661, 687>>, <<880, 883>>, <<886, 887>>, <<891, 893>>, <<895, 895>>,
    <<902, 902>>, <<904, 906>>, <<908, 908>>, <<910, 929>>, <<931, 1013>>,
    <<1015, 1153>>, <<1162, 1327>>, <<1329, 1366>>, <<1376, 1416>>,
    <<4256, 4293>>, <<4295, 4295>>, <<4301, 4301>>, <<4304, 4346>>,
    <<4349, 4351>>, <<5024, 5109>>, <<5112, 5117>>, <<7296, 7304>>,
    <<7312, 7354>>, <<7357, 7359>>, <<7424, 7467>>, <<7531, 7543>>,
    <<7545, 7578>>, <<7680, 7957>>, <<7960, 7965>>, <<7968, 8005>>,
    <<8008, 8013>>, <<8016, 8023>>, <<8025, 8025>>, <<8027, 8027>>,
    <<8029, 8029>>, <<8031, 8061>>, <<8064, 8116>>, <<8118, 8124>>,
    <<8126, 8126>>, <<8130, 8132>>, <<8134, 8140>>, <<8144, 8147>>,
    <<8150, 8155>>, <<8160, 8172>>, <<8178, 8180>>, <<8182, 8188>>,
    <<8450, 8450>>, <<8455, 8455>>, <<8458, 8467>>, <<8469, 8469>>,
    <<8473, 8477>>, <<8484, 8484>>, <<8486, 8486>>, <<8488, 8488>>,
    <<8490, 8493>>, <<8495, 8500>>, <<8505, 8505>>, <<8508, 8511>>,
    <<8517, 8521>>, <<8526, 8526>>, <<8544, 8575>>, <<8579, 8580>>,
    <<9398, 9449>>, <<11264, 11387>>, <<11390, 11492>>, <<11499, 11502>>,
    <<11506, 11507>>, <<11520, 11557>>, <<11559, 11559>>, <<11565, 11565>>,
    <<42560, 42605>>, <<42624, 42651>>, <<42786, 42863>>, <<42865, 42887>>,
    <<42891, 42894>>, <<42896, 42954>>, <<42960, 42961>>, <<42963, 42963>>,
    <<42965, 42969>>, <<42997, 42998>>, <<43002, 43002>>, <<43824, 43866>>,
    <<43872, 43880>>, <<43888, 43967>>, <<64256, 64262>>, <<64275, 64279>>,
    <<65313, 65338>>, <<65345, 65370>>, <<66560, 66639>>, <<66736, 66771>>,
    <<66776, 66811>>, <<66928, 66938>>, <<66940, 66954>>, <<66956, 66962>>,
    <<66964, 66965>>, <<66967, 66977>>, <<66979, 66993>>, <<66995, 67001>>,
    <<67003, 67004>>, <<68736, 68786>>, <<68800, 68850>>, <<71840, 71903>>,
    <<93760, 93823>>, <<119808, 119892>>, <<119894, 119964>>,
    <<119966, 119967>>, <<119970, 119970>>, <<119973, 119974>>,
    <<119977, 119980>>, <<119982, 119993>>, <<119995, 119995>>,
    <<119997, 120003>>, <<120005, 120069>>, <<120071, 120074>>,
    <<120077, 120084>>, <<120086, 120092>>, <<120094, 120121>>,
    <<120123, 120126>>, <<120128, 120132>>, <<120134, 120134>>,
    <<120138, 120144>>, <<120146, 120485>>, <<120488, 120512>>,
    <<120514, 120538>>, <<120540, 120570>>, <<120572, 120596>>,
    <<120598, 120628>>, <<120630, 120654>>, <<120656, 120686>>,
    <<120688, 120712>>, <<120714, 120744>>, <<120746, 120770>>,
    <<120772, 120779>>, <<122624, 122633>>, <<122635, 122654>>,
    <<125184, 125251>>, <<127280, 127305>>, <<127312, 127337>>,
    <<127344, 127369>>>>

InRanges(c, ranges) ==
  \E i \in 1..Len(ranges) : ranges[i][1] <= c /\ c <= ranges[i][2]

IsCaseIgnorable(c) == InRanges(c, CaseIgnorableRanges)

\* for a character that is not Case_Ignorable: it is Cased
IsCased(c) == InRanges(c, CasedRanges)

\* the capital sigma at place i ends a word: a cased character stands before
\* it and none after it, the case-ignorable characters next to it skipped
final_sigma(text, i) ==
  LET before == {j \in 1..(i - 1) : ~IsCaseIgnorable(text[j])}
      after  == {j \in (i + 1)..Len(text) : ~IsCaseIgnorable(text[j])}
      last   == CHOOSE j \in before : \A k \in before : k <= j
      first  == CHOOSE j \in after : \A k \in after : j <= k
  IN /\ before # {}
     /\ IsCased(text[last])
     /\ after = {} \/ ~IsCased(text[first])

\* the lower-case form of the character at place i: one code point, two for
\* the capital I with a dot above (U+0130), and for the capital sigma
\* (U+03A3) the final or the common small sigma
lower_char(text, i) ==
  LET c    == text[i]
      hits == {k \in 1..Len(LowerRuns) :
                 /\ LowerRuns[k][1] <= c
                 /\ c <= LowerRuns[k][2]
                 /\ (c - LowerRuns[k][1]) % LowerRuns[k][3] = 0}
  IN IF c = 304 THEN <<105, 775>>
     ELSE IF c = 931 THEN (IF final_sigma(text, i) THEN <<962>> ELSE <<963>>)
     ELSE IF hits # {} THEN <<c + LowerRuns[CHOOSE k \in hits : TRUE][4]>>
     ELSE <<c>>

\* c.lower()
lower(c) == Flatten([i \in 1..Len(c) |-> lower_char(c, i)])

\* the printable characters of ASCII, code points 32 to 126 (the grave
\* accent, which no string of the module can hold, written U+0060)
Ascii ==
  <<" ", "!", "\"", "#", "$", "%", "&", "'", "(", ")", "*", "+", ",", "-",
    ".", "/", "0", "1", "2", "3", "4", "5", "6", "7", "8", "9", ":", ";",
    "<", "=", ">", "?", "@", "A", "B", "C", "D", "E", "F", "G", "H", "I",
    "J", "K", "L", "M", "N", "O", "P", "Q", "R", "S", "T", "U", "V", "W",
    "X", "Y", "Z", "[", "\\", "]", "^", "_", "U+0060", "a", "b", "c", "d", "e",
    "f", "g", "h", "i", "j", "k", "l", "m", "n", "o", "p", "q", "r", "s",
    "t", "u", "v", "w", "x", "y", "z", "{", "|", "}", "~">>

HexDigits ==
  <<"0", "1", "2", "3", "4", "5", "6", "7", "8", "9", "A", "B", "C", "D", "E", "F">>

RECURSIVE Hex(_, _)
Hex(n, width) ==
  IF n = 0 /\ width <= 0 THEN ""
  ELSE Hex(n \div 16, width - 1) \o HexDigits[(n % 16) + 1]

\* the string with which the tables of the model name a column: the text
\* itself, a character outside printable ASCII written U+XXXX
RECURSIVE Name(_)
Name(text) ==
  IF text = <<>> THEN ""
  ELSE (IF 32 <= Head(text) /\ Head(text) <= 126 THEN Ascii[Head(text) - 31]
        ELSE "U+" \o Hex(Head(text), 4))
       \o Name(Tail(text))

\* the table with its columns renamed position by position
Relabel(df, names) ==
  LET at(n) == CHOOSE j \in 1..Len(names) : names[j] = n
  IN DataFrame(names,
               [i \in 1..Len(df.rows) |->
                  [n \in Range(names) |-> df.rows[i][df.columns[at(n)]]]])

\* df.columns = [c.lower() for c in df.columns]
lower_columns(df) ==
  Relabel(df, [i \in 1..Len(df.columns) |-> Name(lower(df.columns[i]))])

\* the columns= mapping of the two rename calls
dbu_rename(c) ==
  IF c = "box_id" THEN "reference"
  ELSE IF c = "produit" THEN "transporter"
  ELSE IF c = "box_weight" THEN "weight"
  ELSE IF c = "net_weight" THEN "netweight"
  ELSE IF c = "dbu_stock_in_at" THEN "stock_in_at"
  ELSE IF c = "dbu_stock_in_pda_version" THEN "stock_in_pda_version"
  ELSE c

\* df.rename(columns={...})
rename(df) == Relabel(df, [i \in 1..Len(df.columns) |-> dbu_rename(df.columns[i])])

\* df[[...]]: the listed columns in the listed order, KeyError when one is missing
pd_select(df, cols) ==
  IF Range(cols) \subseteq ColSet(df)
  THEN Ok(DataFrame(cols, [i \in 1..Len(df.rows) |->
                             [c \in Range(cols) |-> df.rows[i][c]]]))
  ELSE Raised("KeyError")

\* df[col] = v: every row gets the cell v, a missing column is added last
pd_assign(df, col, v) ==
  DataFrame(IF HasColumn(df, col) THEN df.columns ELSE Append(df.columns, col),
            [i \in 1..Len(df.rows) |->
               [c \in ColSet(df) \cup {col} |-> IF c = col THEN v ELSE df.rows[i][c]]])

\* A stock_in_at cell is a datetime [year, month], a text [text |-> <<yyyy, mm>>]
\* reading "yyyy-mm-...", a text that is no date [text |-> <<>>], or NaN.
IsNaT(cell) == DOMAIN cell = {}
IsDatetime(cell) == "year" \in DOMAIN cell

\* pd.to_datetime can convert the cell
Parses(cell) == IsNaT(cell) \/ IsDatetime(cell) \/ Len(cell.text) = 2

\* pd.to_datetime of a cell that parses: a datetime stays, NaN gives NaT
pd_to_datetime(cell) ==
  IF IsNaT(cell) \/ IsDatetime(cell) THEN cell
  ELSE [year |-> cell.text[1], month |-> cell.text[2]]

\* df["stock_in_at"] = pd.to_datetime(df["stock_in_at"]): KeyError without the
\* column, ValueError on a cell that is no date
stock_in_at_to_datetime(df) ==
  IF ~HasColumn(df, "stock_in_at") THEN Raised("KeyError")
  ELSE IF \E r \in Range(df.rows) : ~Parses(r.stock_in_at) THEN Raised("ValueError")
  ELSE Ok(DataFrame(df.columns,
                    [i \in 1..Len(df.rows) |->
                       [df.rows[i] EXCEPT !["stock_in_at"] = pd_to_datetime(@)]]))

\* Live mode: fetch DBU weight from Snowflake (result: what pd.read_sql returned)
fetch_dbu_from_snowflake(result) ==
  LET df      == lower_columns(result)
      picked  == pd_select(rename(df), WeightColumns)
  IN IF picked.raised # "none" THEN picked
     ELSE stock_in_at_to_datetime(pd_assign(picked.value, "transporter", <<"DBU-PMC">>))

\* Live mode: fetch inrooissy weight from Postgres
fetch_inrooissy_no_pmcdbu_from_postgres(result) ==
  stock_in_at_to_datetime(lower_columns(result))

\* load_dbu_demo, had the legacy names not been mapped to the contract's
load_dbu_demo_no_rename(file) ==
  LET dated == stock_in_at_to_datetime(lower_columns(file))
  IN IF dated.raised # "none" THEN dated
     ELSE pd_select(pd_assign(dated.value, "transporter", <<"DBU-PMC">>), WeightColumns)

\* Demo mode: load anonymised DBU data from CSV (file: what pd.read_csv returned)
load_dbu_demo(file) ==
  LET df0   == lower_columns(file)
      df    == IF HasColumn(df0, "box_id") THEN rename(df0) ELSE df0
      dated == stock_in_at_to_datetime(df)
  IN IF dated.raised # "none" THEN dated
     ELSE pd_select(pd_assign(dated.value, "transporter", <<"DBU-PMC">>), WeightColumns)

\* Demo mode: load anonymised inrooissy data from CSV
load_inrooissy_demo(file) ==
  LET dated == stock_in_at_to_datetime(lower_columns(file))
  IN IF dated.raised # "none" THEN dated
     ELSE pd_select(dated.value, WeightColumns)

\* Concatenate inrooissy (non-PMC/DBU) with DBU weights, then convert
\* stock_in_at once more (line 283), which may raise
build_inrooissy_all(no_pmcdbu, dbu) ==
  stock_in_at_to_datetime(pd_concat(no_pmcdbu, dbu))

\* Summarize weight by year-month-transporter.  .dt.year and .dt.month of a
\* column with a NaT are float64 columns.  groupby (dropna=True, the default)
\* drops every row with a missing key: a row without a stamp, and a row
\* without a transporter.  nunique does not count a missing reference, sum
\* skips a missing weight (the sum of none is 0).  The keys of the summary
\* are never missing: year, month and transporter are plain values there.
summarize_inrooissy(df) ==
  IF ~HasColumn(df, "stock_in_at") THEN Raised("KeyError")
  ELSE
    LET keyed   == SelectSeq(df.rows, LAMBDA r : ~IsNaT(r.stock_in_at)
                                                  /\ r.transporter # NaN)
        floats  == IF \E r \in Range(df.rows) : IsNaT(r.stock_in_at)
                   THEN {"year", "month"} ELSE {}
        key(r)  == <<r.stock_in_at.year, r.stock_in_at.month, r.transporter[1]>>
        keys    == SortKeys3({key(r) : r \in Range(keyed)})
        grp(k)  == SelectSeq(keyed, LAMBDA r : key(r) = k)
        col(s, c) == [i \in 1..Len(s) |-> s[i][c]]
        agg(k)  == [year |-> k[1], month |-> k[2], transporter |-> k[3],
                    reference_unique |->
                      Cardinality(Range(col(grp(k), "reference")) \ {NaN}),
                    total_weight     |-> SumSkipNa(col(grp(k), "weight")),
                    total_netweight  |-> SumSkipNa(col(grp(k), "netweight"))]
    IN Ok(AsFloat64(DataFrame(<<"year", "month", "transporter", "reference_unique",
                                "total_weight", "total_netweight">>,
                              [i \in 1..Len(keys) |-> agg(keys[i])]),
                    floats))

\* df.groupby(["year", "month"], as_index=False)["total_weight"].sum(),
\* the sum renamed to `name`
GroupMonthSum(rows, name) ==
  LET key(r) == <<r.year, r.month>>
      keys   == SortPeriods({key(r) : r \in Range(rows)})
      grp(k) == SelectSeq(rows, LAMBDA r : key(r) = k)
      tot(k) == SumSeq([i \in 1..Len(grp(k)) |-> grp(k)[i].total_weight])
  IN DataFrame(<<"year", "month", name>>,
               [i \in 1..Len(keys) |->
                  [c \in {"year", "month", name} |->
                     IF c = "year" THEN keys[i][1]
                     ELSE IF c = "month" THEN keys[i][2]
                     ELSE tot(keys[i])]])

\* dbu_ratio_of, had the guard been total_weight_all != 0
dbu_ratio_of_nonzero(total_weight_dbu, total_weight_all) ==
  IF total_weight_all # 0
  THEN <<total_weight_dbu * 100, total_weight_all>>
  ELSE NaN

\* np.where(total_weight_all > 0, total_weight_dbu / total_weight_all * 100, nan):
\* the percentage is kept as the exact fraction <<numerator, denominator>>
dbu_ratio_of(total_weight_dbu, total_weight_all) ==
  IF total_weight_all > 0
  THEN <<total_weight_dbu * 100, total_weight_all>>
  ELSE NaN

\* dbu_mask, had it compared with a product code of the source instead of the tag
dbu_mask_produit(r) == r.transporter = "FR-DBU-S"

\* dbu_mask = df["transporter"] == "DBU-PMC"
dbu_mask(r) == r.transporter = "DBU-PMC"

\* calc_dbu_share, had the join of the month totals with the program totals
\* been how="inner": a month without a program row is lost
calc_dbu_share_inner(summary) ==
  LET keyfloats   == FloatColumns(summary) \cap {"year", "month"}
      month_total == AsFloat64(GroupMonthSum(summary.rows, "total_weight_all"),
                               keyfloats)
      dbu_total   == AsFloat64(GroupMonthSum(
                                 SelectSeq(summary.rows, LAMBDA r : dbu_mask(r)),
                                 "total_weight_dbu"),
                               keyfloats)
      label(r)    == astype_str(r.year, "year" \in keyfloats) \o "-"
                     \o zfill2(astype_str(r.month, "month" \in keyfloats))
      left        == pd_merge_left(month_total, dbu_total, {"year", "month"})
      inner       == AsFloat64(
                       DataFrame(left.columns,
                                 SelectSeq(left.rows,
                                           LAMBDA r : r.total_weight_dbu # NaN)),
                       FloatColumns(left))
      merged      == fillna(inner, "total_weight_dbu", 0)
      cols        == merged.columns \o <<"dbu_ratio", "x_label">>
      full(r)     == [c \in Range(cols) |->
                        IF c = "dbu_ratio"
                          THEN dbu_ratio_of(r.total_weight_dbu, r.total_weight_all)
                        ELSE IF c = "x_label" THEN label(r)
                        ELSE r[c]]
      rows        == [i \in 1..Len(merged.rows) |-> full(merged.rows[i])]
      order       == SortPeriods({<<r.year, r.month>> : r \in Range(rows)})
  IN AsFloat64(
       DataFrame(cols,
                 Flatten([i \in 1..Len(order) |->
                            SelectSeq(rows, LAMBDA r : <<r.year, r.month>> = order[i])])),
       FloatColumns(merged))

\* Compute monthly total weight, DBU weight, and DBU share (%)
calc_dbu_share(summary) ==
  LET keyfloats   == FloatColumns(summary) \cap {"year", "month"}
      month_total == AsFloat64(GroupMonthSum(summary.rows, "total_weight_all"),
                               keyfloats)
      dbu_total   == AsFloat64(GroupMonthSum(
                                 SelectSeq(summary.rows, LAMBDA r : dbu_mask(r)),
                                 "total_weight_dbu"),
                               keyfloats)
      label(r)    == astype_str(r.year, "year" \in keyfloats) \o "-"
                     \o zfill2(astype_str(r.month, "month" \in keyfloats))
      merged      == fillna(pd_merge_left(month_total, dbu_total, {"year", "month"}),
                            "total_weight_dbu", 0)
      cols        == merged.columns \o <<"dbu_ratio", "x_label">>
      full(r)     == [c \in Range(cols) |->
                        IF c = "dbu_ratio"
                          THEN dbu_ratio_of(r.total_weight_dbu, r.total_weight_all)
                        ELSE IF c = "x_label" THEN label(r)
                        ELSE r[c]]
      rows        == [i \in 1..Len(merged.rows) |-> full(merged.rows[i])]
      order       == SortPeriods({<<r.year, r.month>> : r \in Range(rows)})
  IN AsFloat64(
       DataFrame(cols,
                 Flatten([i \in 1..Len(order) |->
                            SelectSeq(rows, LAMBDA r : <<r.year, r.month>> = order[i])])),
       FloatColumns(merged))

\* merge_weight_and_price, had a missing price been filled from the row before
merge_weight_and_price_ffill(share, price_monthly) ==
  LET merged == pd_merge_left(share,
                              Select(price_monthly, <<"year", "month", "total_price">>),
                              {"year", "month"})
      n      == Len(merged.rows)
      fill[i \in 1..n] ==
        IF merged.rows[i].total_price # NaN THEN merged.rows[i].total_price[1]
        ELSE IF i = 1 THEN 0 ELSE fill[i - 1]
  IN IF ~HasColumn(merged, "total_price") THEN Raised("KeyError")
     ELSE Ok(AsFloat64(DataFrame(merged.columns,
                                 [i \in 1..n |->
                                    [merged.rows[i] EXCEPT !.total_price = fill[i]]]),
                       FloatColumns(merged)))

\* Merge weight summary with monthly price data
merge_weight_and_price(share, price_monthly) ==
  LET merged == pd_merge_left(share,
                              Select(price_monthly, <<"year", "month", "total_price">>),
                              {"year", "month"})
  IN IF ~HasColumn(merged, "total_price") THEN Raised("KeyError")
     ELSE Ok(fillna(merged, "total_price", 0))


-----------------------------------------------------------------------------
(* Inputs of the weight pipeline *)

SeqsUpTo(S, n) == UNION {[1..k -> S] : k \in 0..n}

\* stock-in timestamps, as the (year, month) the summarizer reads from them
Stamps == {[year |-> 2024, month |-> 2], [year |-> 2025, month |-> 1]}

References == {<<"r1">>}
Weights == {<<-1>>, <<0>>, <<1>>}
NetWeights == {<<1>>}

\* The rows an adapter returns with the transporter cells `tags`.  Neither
\* the queries nor the demo files keep a missing cell out, so next to the
\* complete records there are records that were not weighed (no reference,
\* weight or net weight) and records without a stamp; of a record without a
\* stamp the summary reads no other cell, so one of them stands for all.
LedgerRecords(tags) ==
  [reference : References, transporter : tags, weight : Weights,
   netweight : NetWeights, stock_in_at : Stamps, stock_in_pda_version : {"v1"}]
  \cup [reference : {NaN}, transporter : tags, weight : {NaN},
        netweight : {NaN}, stock_in_at : Stamps, stock_in_pda_version : {"v1"}]
  \cup [reference : References, transporter : {CHOOSE t \in tags : TRUE},
        weight : {<<1>>}, netweight : NetWeights, stock_in_at : {NaN},
        stock_in_pda_version : {"v1"}]

\* rows the general adapter returns: the transporter is whatever the source
\* holds, or missing (of a record without a transporter the summary reads no
\* other cell: it is given the weight 1)
GeneralRecords ==
  LedgerRecords({<<"UPS">>, <<"DBU-PMC">>})
  \cup [reference : References, transporter : {NaN}, weight : {<<1>>},
        netweight : NetWeights, stock_in_at : Stamps, stock_in_pda_version : {"v1"}]

\* rows the program adapter returns: the transporter is always the program tag
ProgramRecords == LedgerRecords({<<"DBU-PMC">>})

\* monthly price tables, as agg_monthly_price returns them: one row per
\* (year, month), ascending
Prices == {75}

PriceTableOf(f) ==
  LET order == SortPeriods({<<s.year, s.month>> : s \in DOMAIN f})
  IN DataFrame(<<"year", "month", "total_price", "x_label">>,
               [i \in 1..Len(order) |->
                  [year |-> order[i][1], month |-> order[i][2],
                   total_price |-> f[[year |-> order[i][1], month |-> order[i][2]]],
                   x_label |-> x_label(order[i][1], order[i][2])]])

PriceTables == {PriceTableOf(f) : f \in UNION {[S -> Prices] : S \in SUBSET Stamps}}

-----------------------------------------------------------------------------
(* The weight pipeline as a run: ledgers -> unified -> summary -> share ->  *)
(* merged, and the merge applied once more to its own output                *)

InitWeight ==
  /\ pc = "ledgers"
  /\ \E g \in 0..MaxRows : \E p \in 0..(MaxRows - g) :
       /\ df_inrooissy_no_pmcdbu \in
            {DataFrame(WeightColumns, rows) : rows \in [1..g -> GeneralRecords]}
       /\ df_dbu \in
            {DataFrame(WeightColumns, rows) : rows \in [1..p -> ProgramRecords]}
  /\ df_inrooissy = None
  /\ df_summary = None
  /\ dbu_share = None
  /\ df_price_y_m = None
  /\ merged_full = None
  /\ merged_again = None
  /\ workbook = None
  /\ df_all_price = None
  /\ source = None
  /\ CtlIdle

BuildInrooissyAll ==
  /\ pc = "ledgers"
  /\ df_inrooissy' = build_inrooissy_all(df_inrooissy_no_pmcdbu, df_dbu)
  /\ pc' = "unified"
  /\ UNCHANGED <<source, workbook, df_all_price, df_price_y_m, df_inrooissy_no_pmcdbu,
                 df_dbu, df_summary, dbu_share, merged_full, merged_again,
                 ctl>>

SummarizeInrooissy ==
  /\ pc = "unified"
  /\ df_inrooissy.raised = "none"
  /\ df_summary' = summarize_inrooissy(df_inrooissy.value)
  /\ pc' = "summarized"
  /\ UNCHANGED <<source, workbook, df_all_price, df_price_y_m, df_inrooissy_no_pmcdbu,
                 df_dbu, df_inrooissy, dbu_share, merged_full, merged_again,
                 ctl>>

CalcDbuShare ==
  /\ pc = "summarized"
  /\ df_summary.raised = "none"
  /\ dbu_share' = calc_dbu_share(df_summary.value)
  /\ pc' = "shared"
  /\ UNCHANGED <<source, workbook, df_all_price, df_price_y_m, df_inrooissy_no_pmcdbu,
                 df_dbu, df_inrooissy, df_summary, merged_full, merged_again,
                 ctl>>

MergeWeightAndPrice ==
  /\ pc = "shared"
  /\ \E price \in PriceTables :
       /\ df_price_y_m' = price
       /\ merged_full' = merge_weight_and_price(dbu_share, price)
  /\ pc' = "merged"
  /\ UNCHANGED <<source, workbook, df_all_price, df_inrooissy_no_pmcdbu, df_dbu,
                 df_inrooissy, df_summary, dbu_share, merged_again, ctl>>

MergeAgain ==
  /\ pc = "merged"
  /\ merged_full.raised = "none"
  /\ merged_again' = merge_weight_and_price(merged_full.value, df_price_y_m)
  /\ pc' = "merged_again"
  /\ UNCHANGED <<source, workbook, df_all_price, df_price_y_m, df_inrooissy_no_pmcdbu,
                 df_dbu, df_inrooissy, df_summary, dbu_share, merged_full,
                 ctl>>

NextWeight ==
  \/ BuildInrooissyAll
  \/ SummarizeInrooissy
  \/ CalcDbuShare
  \/ MergeWeightAndPrice
  \/ MergeAgain

SpecWeight == InitWeight /\ [][NextWeight]_vars

-----------------------------------------------------------------------------
(* Properties of the weight pipeline *)

Period(r) == <<r.year, r.month>>
StampPeriod(r) == <<r.stock_in_at.year, r.stock_in_at.month>>

\* every record of the two ledgers, the general ones first
LedgerRows == df_inrooissy_no_pmcdbu.rows \o df_dbu.rows

\* the records that carry a stamp; a record without one falls in no month
DatedRows == SelectSeq(LedgerRows, LAMBDA l : ~IsNaT(l.stock_in_at))

WeightPeriods == {StampPeriod(r) : r \in Range(DatedRows)}

HasShare == pc \in {"shared", "merged", "merged_again"}
HasMerged == pc \in {"merged", "merged_again"} /\ merged_full.raised = "none"

WeightsOf(rows) == [i \in 1..Len(rows) |-> rows[i].weight]

\* C1 as claimed: the merged table has exactly one row for each (year, month)
\* of the weight data and no other row: a weight month without a price is
\* kept, a price month without weight records is absent.  (The summary
\* drops the records without a transporter, and with them a month that has
\* no other record.)
C1_OneRowPerWeightMonth ==
  pc \in {"merged", "merged_again"} =>
    /\ merged_full.raised = "none"
    /\ LET out == merged_full.value.rows
       IN /\ \A p \in WeightPeriods :
               Cardinality({i \in 1..Len(out) : Period(out[i]) = p}) = 1
          /\ \A i \in 1..Len(out) : Period(out[i]) \in WeightPeriods

\* C2 as claimed: in every row of the share table, total_weight_all is the
\* sum of the weight of every ledger record (both sources, nothing
\* deduplicated) stocked in during that (year, month), and total_weight_dbu
\* the sum over those whose transporter is 'DBU-PMC'; a record that was not
\* weighed adds nothing.  (The summary leaves out the weight of the records
\* without a transporter.)
C2_MonthlySums ==
  HasShare =>
    \A r \in Range(dbu_share.rows) :
      LET inMonth == SelectSeq(DatedRows, LAMBDA l : StampPeriod(l) = Period(r))
          program == SelectSeq(inMonth, LAMBDA l : l.transporter = <<"DBU-PMC">>)
      IN /\ r.total_weight_all = SumSkipNa(WeightsOf(inMonth))
         /\ r.total_weight_dbu = SumSkipNa(WeightsOf(program))

AllWeightsNonNegative ==
  \A l \in Range(LedgerRows) : l.weight = NaN \/ l.weight[1] >= 0

RatioIsExact(r) ==
  /\ Len(r.dbu_ratio) = 2
  /\ r.dbu_ratio[2] > 0
  /\ r.dbu_ratio[1] * r.total_weight_all = r.total_weight_dbu * 100 * r.dbu_ratio[2]

\* C3 (as amended): in every row of the share table dbu_ratio is null exactly
\* when total_weight_all <= 0; in every other row it equals
\* total_weight_dbu / total_weight_all * 100 and, when no weight is negative,
\* lies in [0, 100].
C3_RatioNullIffNotPositive ==
  HasShare =>
    \A r \in Range(dbu_share.rows) :
      /\ (r.dbu_ratio = NaN) <=> (r.total_weight_all <= 0)
      /\ r.dbu_ratio # NaN =>
           /\ RatioIsExact(r)
           /\ AllWeightsNonNegative =>
                /\ 0 <= r.dbu_ratio[1]
                /\ r.dbu_ratio[1] <= 100 * r.dbu_ratio[2]

C3_Witness ==
  /\ pc = "shared"
  /\ \E r \in Range(dbu_share.rows) : r.total_weight_all < 0 /\ r.dbu_ratio = NaN
  /\ \E r \in Range(dbu_share.rows) : r.total_weight_all > 0 /\ r.dbu_ratio = <<100, 1>>

\* C3 as claimed: dbu_ratio is null exactly when total_weight_all = 0.
C3_RatioNullIffZero ==
  HasShare =>
    \A r \in Range(dbu_share.rows) :
      (r.dbu_ratio = NaN) <=> (r.total_weight_all = 0)

OtherRows(r) ==
  SelectSeq(df_summary.value.rows,
            LAMBDA q : Period(q) = Period(r) /\ q.transporter # "DBU-PMC")

SummaryNonNegative == \A q \in Range(df_summary.value.rows) : q.total_weight >= 0

\* C4 (as amended): for a summary whose total weights are all non-negative,
\* in every output month total_weight_dbu <= total_weight_all, and the two
\* are equal if and only if every row of that month with another transporter
\* than 'DBU-PMC' has total weight 0 (in particular when there is none).
C4_DbuAtMostAll ==
  (HasShare /\ SummaryNonNegative) =>
    \A r \in Range(dbu_share.rows) :
      /\ r.total_weight_dbu <= r.total_weight_all
      /\ (r.total_weight_dbu = r.total_weight_all)
           <=> (\A q \in Range(OtherRows(r)) : q.total_weight = 0)

C4_Witness ==
  /\ pc = "shared"
  /\ SummaryNonNegative
  /\ \E r \in Range(dbu_share.rows) :
       /\ r.total_weight_dbu = 1
       /\ r.total_weight_all = 1
       /\ OtherRows(r) # <<>>

\* C4 as claimed, already on the summaries that hold no negative weight:
\* total_weight_dbu <= total_weight_all, with equality if and only if the
\* month has no row of another transporter.
C4_EqualIffNoOtherRows ==
  (HasShare /\ SummaryNonNegative) =>
    \A r \in Range(dbu_share.rows) :
      /\ r.total_weight_dbu <= r.total_weight_all
      /\ (r.total_weight_dbu = r.total_weight_all) <=> (OtherRows(r) = <<>>)

\* C7 as claimed: merging the merged table with the same price table once
\* more completes and gives every (year, month) row the same total_price.
C7_MergeIdempotent ==
  pc = "merged_again" =>
    /\ merged_again.raised = "none"
    /\ Len(merged_again.value.rows) = Len(merged_full.value.rows)
    /\ \A i \in 1..Len(merged_full.value.rows) :
         /\ HasColumn(merged_again.value, "total_price")
         /\ Period(merged_again.value.rows[i]) = Period(merged_full.value.rows[i])
         /\ merged_again.value.rows[i].total_price
              = merged_full.value.rows[i].total_price

PriceRowsFor(r) == SelectSeq(df_price_y_m.rows, LAMBDA q : Period(q) = Period(r))

\* C8: every row of the merged table carries the total_price of the price
\* row of its (year, month), or 0 when there is none, and the year, month,
\* total_weight_all, total_weight_dbu, dbu_ratio and x_label of the share row.
C8_MergeFrame ==
  pc \in {"merged", "merged_again"} =>
    /\ merged_full.raised = "none"
    /\ Len(merged_full.value.rows) = Len(dbu_share.rows)
    /\ FloatColumns(merged_full.value) = FloatColumns(dbu_share)
    /\ \A i \in 1..Len(dbu_share.rows) :
         LET out == merged_full.value.rows[i]
             in  == dbu_share.rows[i]
         IN /\ \A c \in {"year", "month", "total_weight_all", "total_weight_dbu",
                         "dbu_ratio", "x_label"} : out[c] = in[c]
            /\ out.total_price =
                 IF PriceRowsFor(in) = <<>> THEN 0
                 ELSE PriceRowsFor(in)[1].total_price

C8_Witness ==
  /\ HasMerged
  /\ \E r \in Range(merged_full.value.rows) :
       r.total_price = 75 /\ PriceRowsFor(r) # <<>>
  /\ \E r \in Range(merged_full.value.rows) :
       r.total_price = 0 /\ PriceRowsFor(r) = <<>>

\* the (year, month) of the rows of the summary
SummaryPeriods == {Period(q) : q \in Range(df_summary.value.rows)}

\* the rows of the summary of the month of r that carry the program tag
ProgramRows(r) ==
  SelectSeq(df_summary.value.rows,
            LAMBDA q : Period(q) = Period(r) /\ q.transporter = "DBU-PMC")

\* C11: the share table has exactly one row for each (year, month) of the
\* summary and no other row, and in a month without any row whose
\* transporter is 'DBU-PMC' total_weight_dbu is the number 0, not null.
C11_NoMonthDropped ==
  HasShare =>
    LET out == dbu_share.rows
    IN /\ \A p \in SummaryPeriods :
            Cardinality({i \in 1..Len(out) : Period(out[i]) = p}) = 1
       /\ \A i \in 1..Len(out) : Period(out[i]) \in SummaryPeriods
       /\ \A i \in 1..Len(out) :
            ProgramRows(out[i]) = <<>> =>
              /\ out[i].total_weight_dbu \in Int
              /\ out[i].total_weight_dbu = 0

C11_Witness ==
  /\ HasShare
  /\ Len(dbu_share.rows) = 2
  /\ \E r \in Range(dbu_share.rows) :
       /\ ProgramRows(r) = <<>>
       /\ r.total_weight_all = 1
       /\ r.total_weight_dbu = 0
  /\ \E r \in Range(dbu_share.rows) :
       /\ ProgramRows(r) # <<>>
       /\ r.total_weight_dbu = 1

-----------------------------------------------------------------------------
(* Inputs of the price pipeline *)

\* sheet names, letter by letter: "d2024", "20251" with its first four
\* digits in fullwidth form, "d202x", and "1677", a year whose first days no
\* Timestamp holds
SheetNames ==
  {<<"d", "2", "0", "2", "4">>,
   <<"U+FF12", "U+FF10", "U+FF12", "U+FF15", "1">>,
   <<"d", "2", "0", "2", "x">>, <<"1", "6", "7", "7">>}

\* date cells, <<d, m>> for a cell reading "d/m"
DateCells == {<<1, 1>>, <<29, 2>>}

\* amount cells: a number, or text that is no number
AmountCells == {[kind |-> "num", v |-> 100], [kind |-> "text", v |-> 0]}

SheetRows ==
  {[c \in {COL_DATE, COL_AMOUNT} |-> IF c = COL_DATE THEN d ELSE a] :
     d \in DateCells, a \in AmountCells}

\* a sheet holds both columns, or lacks one of them
ColumnVariants == {<<COL_DATE, COL_AMOUNT>>, <<COL_DATE>>, <<COL_AMOUNT>>}

\* the workbook of the sheets named names[i] with the columns cols[i], the
\* rows `flat` dealt to them in order, alloc[i] rows to sheet i
WorkbookOf(names, cols, alloc, flat) ==
  [i \in 1..Len(names) |->
     [name |-> names[i], columns |-> cols[i],
      rows |-> SubSeq(flat, SumSeq(SubSeq(alloc, 1, i - 1)) + 1,
                      SumSeq(SubSeq(alloc, 1, i)))]]

-----------------------------------------------------------------------------
(* The price pipeline as a run: workbook -> daily prices -> monthly prices *)

InitPrice ==
  /\ pc = "uploaded"
  \* at least one sheet, no two sheets of one name; a sheet that lacks a
  \* column is given no rows (the loader never reads them)
  /\ \E k \in 1..MaxSheets :
       \E names \in [1..k -> SheetNames], cols \in [1..k -> ColumnVariants],
          alloc \in [1..k -> 0..MaxPriceRows] :
         /\ \A i, j \in 1..k : i # j => names[i] # names[j]
         /\ SumSeq(alloc) <= MaxPriceRows
         /\ \A i \in 1..k : Len(cols[i]) < 2 => alloc[i] = 0
         /\ \E flat \in [1..SumSeq(alloc) -> SheetRows] :
              workbook = WorkbookOf(names, cols, alloc, flat)
  /\ df_all_price = None
  /\ df_price_y_m = None
  /\ df_inrooissy_no_pmcdbu = None
  /\ df_dbu = None
  /\ df_inrooissy = None
  /\ df_summary = None
  /\ dbu_share = None
  /\ merged_full = None
  /\ merged_again = None
  /\ source = None
  /\ CtlIdle

LoadAndCleanPrice ==
  /\ pc = "uploaded"
  /\ df_all_price' \in load_and_clean_price_from_workbook(workbook)
  /\ pc' = "loaded"
  /\ UNCHANGED <<source, workbook, df_price_y_m, df_inrooissy_no_pmcdbu, df_dbu,
                 df_inrooissy, df_summary, dbu_share, merged_full, merged_again,
                 ctl>>

AggMonthlyPrice ==
  /\ pc = "loaded"
  /\ df_all_price.raised = "none"
  /\ df_price_y_m' = agg_monthly_price(df_all_price.value)
  /\ pc' = "aggregated"
  /\ UNCHANGED <<source, workbook, df_all_price, df_inrooissy_no_pmcdbu, df_dbu,
                 df_inrooissy, df_summary, dbu_share, merged_full, merged_again,
                 ctl>>

NextPrice ==
  \/ LoadAndCleanPrice
  \/ AggMonthlyPrice

SpecPrice == InitPrice /\ [][NextPrice]_vars

-----------------------------------------------------------------------------
(* Properties of the price pipeline *)

HasRequiredColumns(sheet) ==
  HasColumn(sheet, COL_DATE) /\ HasColumn(sheet, COL_AMOUNT)

Qualifies(sheet) == HasRequiredColumns(sheet) /\ search_year(sheet.name) # <<>>

\* a cell "d/m" names a day of the year y
IsDayOf(cell, y) ==
  /\ cell[2] \in 1..12 /\ cell[1] \in 1..DaysInMonth(y, cell[2])
  /\ InTimestampRange(y, cell[2], cell[1])

\* the (date, amount) row a valid row r of a sheet of the year y stands for
DailyRow(r, y) ==
  [c \in {"date", COL_AMOUNT} |->
     IF c = "date"
     THEN [year |-> y, month |-> r[COL_DATE][2], day |-> r[COL_DATE][1]]
     ELSE IF r[COL_AMOUNT].kind = "num" THEN <<r[COL_AMOUNT].v>> ELSE NaN]

\* the valid rows of the workbook: the rows of the qualifying sheets whose
\* date parses, sheet by sheet, as (date, amount) with the sheet's year
ValidRows ==
  LET daily(rows, y) ==
        LET valid == SelectSeq(rows, LAMBDA r : IsDayOf(r[COL_DATE], y))
        IN [i \in 1..Len(valid) |-> DailyRow(valid[i], y)]
  IN Flatten([i \in 1..Len(workbook) |->
                IF Qualifies(workbook[i])
                THEN daily(workbook[i].rows,
                           YearValue(search_year(workbook[i].name)[1]))
                ELSE <<>>])

AmountOrZero(a) == IF a = NaN THEN 0 ELSE a[1]

\* C6: the total_price of all rows of the monthly table add up to the sum of
\* the amounts of all valid rows of the workbook, an unparseable amount
\* counting as 0.
C6_PriceSumPreserved ==
  pc = "aggregated" =>
    \A valid \in {ValidRows} :
      SumSeq([i \in 1..Len(df_price_y_m.rows) |-> df_price_y_m.rows[i].total_price])
        = SumSeq([i \in 1..Len(valid) |-> AmountOrZero(valid[i][COL_AMOUNT])])

C6_Witness ==
  /\ pc = "aggregated"
  /\ Len(df_all_price.value.rows) = 2
  /\ \E r \in Range(df_all_price.value.rows) : r[COL_AMOUNT] = NaN
  /\ Len(df_price_y_m.rows) = 1
  /\ df_price_y_m.rows[1].total_price = 100

Count(x, rows) == Cardinality({i \in 1..Len(rows) : rows[i] = x})

\* C9: the loader fails with the no-valid-sheet error, returning no table,
\* when no sheet holds both required columns; when at least one sheet is
\* accepted it returns the (date, amount) rows of all accepted sheets,
\* sorted by date.
C9_NoValidSheetOrSorted ==
  pc \in {"loaded", "aggregated"} =>
    /\ (\A i \in 1..Len(workbook) : ~HasRequiredColumns(workbook[i]))
         => df_all_price = Raised("ValueError")
    /\ (\E i \in 1..Len(workbook) : Qualifies(workbook[i])) =>
         /\ df_all_price.raised = "none"
         /\ df_all_price.value.columns = <<"date", COL_AMOUNT>>
         /\ \A out \in {df_all_price.value.rows}, valid \in {ValidRows} :
              /\ Len(out) = Len(valid)
              /\ \A x \in Range(out) \cup Range(valid) :
                   Count(x, out) = Count(x, valid)
              /\ \A i \in 1..(Len(out) - 1) : ~DateLess(out[i + 1].date, out[i].date)

C9_Witness ==
  /\ pc = "loaded"
  /\ Len(workbook) = 2
  /\ sheet_accepted(workbook[1]) /\ sheet_accepted(workbook[2])
  /\ Len(workbook[1].rows) = 1 /\ Len(workbook[2].rows) = 1
  /\ YearValue(search_year(workbook[1].name)[1]) = 2025
  /\ YearValue(search_year(workbook[2].name)[1]) = 2024
  /\ df_all_price.raised = "none"
  /\ Len(df_all_price.value.rows) = 2
  /\ df_all_price.value.rows[1].date.year = 2024

-----------------------------------------------------------------------------
(* main and load_weight_summary as a run of steps.  Every step either       *)
(* completes or raises, an instance of Exception or of another class; the   *)
(* tables the steps pass on are those of the pipelines above and are left   *)
(* out here.                                                                *)

\* the steps of the first try block of main (lines 653-659)
PriceSteps ==
  {"getvalue", "load_price_monthly_from_bytes", "price_success", "price_table"}

\* the steps of the second try block of main (lines 666-725)
WeightSteps ==
  {"load_weight_summary", "weight_success", "calc_dbu_share",
   "merge_weight_and_price", "data_summary", "chart_weight_price_combo",
   "detail_table", "monthly_analysis", "chart_single_month"}

\* the statements of main outside both try blocks: lines 620-647, the
\* handlers' own calls (662, 728, 730) and the st.info of line 732
OutsideSteps ==
  {"title", "sidebar", "mode_message", "file_uploader", "upload_info",
   "except_price", "except_weight", "check_connections"}

\* what a call may raise: an instance of Exception, or of a BaseException
\* that is none (KeyboardInterrupt, SystemExit, the exceptions by which
\* Streamlit stops or reruns a script)
ExceptionClasses == {"Exception", "BaseException"}

\* the except clause that catches what a step raises: `except Exception`
\* (lines 661, 727) catches the instances of Exception only; every other
\* exception, and what a statement outside the try blocks raises, leaves main
handler_of(step, cls) ==
  IF cls # "Exception" THEN "escaped"
  ELSE IF step \in PriceSteps THEN "except_price"
  ELSE IF step \in WeightSteps THEN "except_weight"
  ELSE "escaped"

\* the price handler, had its return been left out: main goes on to the
\* weight stage
price_except_fallthrough == "load_weight_summary"

\* where main continues after the price handler: it returns (line 663)
price_except_next == "done"

InitMain ==
  /\ pc = "title"
  /\ use_demo \in BOOLEAN
  /\ sf_conn = "none"
  /\ pg_conn = "none"
  /\ exc = "none"
  /\ lws_status = "none"
  /\ log = <<>>
  /\ shown = <<>>
  /\ raised_at = "none"
  /\ months_left = 0
  /\ main_status = "running"
  /\ source = None
  /\ workbook = None
  /\ df_all_price = None
  /\ df_price_y_m = None
  /\ df_inrooissy_no_pmcdbu = None
  /\ df_dbu = None
  /\ df_inrooissy = None
  /\ df_summary = None
  /\ dbu_share = None
  /\ merged_full = None
  /\ merged_again = None

\* the step raises an exception of class cls: control passes to its except
\* clause, or leaves main
RaisesClass(step, cls) ==
  /\ pc' = handler_of(step, cls)
  /\ raised_at' = step
  /\ exc' = cls
  /\ main_status' = IF handler_of(step, cls) = "escaped" THEN "escaped"
                    ELSE main_status

\* the step raises
Raises(step) == \E cls \in ExceptionClasses : RaisesClass(step, cls)

\* the step completes and main goes on with `next`
Completes(next) ==
  /\ pc' = next
  /\ raised_at' = raised_at
  /\ exc' = exc
  /\ main_status' = main_status

\* a step of main that shows nothing
Step(step, next) ==
  /\ pc = step
  /\ log' = Append(log, step)
  /\ \/ Completes(next)
     \/ Raises(step)
  /\ UNCHANGED <<data, use_demo, sf_conn, pg_conn, lws_status, shown, months_left>>

\* a step of main that ends by showing `message`
StepShowing(step, next, message) ==
  /\ pc = step
  /\ log' = Append(log, step)
  /\ \/ Completes(next) /\ shown' = Append(shown, message)
     \/ Raises(step) /\ shown' = shown
  /\ UNCHANGED <<data, use_demo, sf_conn, pg_conn, lws_status, months_left>>

\* st.title(...)
Title == Step("title", "sidebar")

\* with st.sidebar: st.header(...); st.markdown(...)
Sidebar == Step("sidebar", "mode_message")

\* the message of the mode the program runs in
mode_message == IF use_demo THEN "sidebar success: demo mode"
                ELSE "sidebar info: live mode"

\* st.success("Demo mode ...") or st.info("Live mode ...") in the sidebar,
\* then the end of the `with st.sidebar` block, whose __exit__ may raise
\* after the message was shown
ModeMessage ==
  \/ StepShowing("mode_message", "file_uploader", mode_message)
  \/ /\ pc = "mode_message"
     /\ log' = Append(log, "mode_message")
     /\ shown' = Append(shown, mode_message)
     /\ Raises("mode_message")
     /\ UNCHANGED <<data, use_demo, sf_conn, pg_conn, lws_status, months_left>>

\* excel_file = st.file_uploader(...): a file, nothing uploaded, or the call raises
FileUploader ==
  /\ pc = "file_uploader"
  /\ log' = Append(log, "file_uploader")
  /\ \/ Completes("getvalue")
     \/ Completes("upload_info")
     \/ Raises("file_uploader")
  /\ UNCHANGED <<data, use_demo, sf_conn, pg_conn, lws_status, shown, months_left>>

\* else: st.info("Please upload the Excel file first ..."), then main returns
UploadInfo ==
  /\ pc = "upload_info"
  /\ log' = Append(log, "upload_info")
  /\ \/ /\ pc' = "done"
        /\ shown' = Append(shown, "info: upload the file")
        /\ main_status' = "returned"
        /\ raised_at' = raised_at
        /\ exc' = exc
     \/ /\ Raises("upload_info")
        /\ shown' = shown
  /\ UNCHANGED <<data, use_demo, sf_conn, pg_conn, lws_status, months_left>>

GetValue == Step("getvalue", "load_price_monthly_from_bytes")

LoadPriceMonthlyFromBytes == Step("load_price_monthly_from_bytes", "price_success")

PriceSuccess == StepShowing("price_success", "price_table", "success: price")

PriceTable == Step("price_table", "load_weight_summary")

\* what a handler's own st.error raises, of whatever class, leaves main;
\* raised_at and exc keep the step of the stage that raised first and the
\* class of what it raised
HandlerRaises ==
  /\ pc' = "escaped"
  /\ main_status' = "escaped"
  /\ shown' = shown

\* except Exception: st.error(...); return
ExceptPrice ==
  /\ pc = "except_price"
  /\ log' = Append(log, "except_price")
  /\ \/ /\ shown' = Append(shown, "error: price")
        /\ pc' = price_except_next
        /\ main_status' = IF price_except_next = "done" THEN "returned" ELSE main_status
     \/ HandlerRaises
  /\ UNCHANGED <<data, use_demo, sf_conn, pg_conn, exc, lws_status, raised_at,
                 months_left>>

\* with st.spinner(...): df_summary = load_weight_summary(): the body of the
\* function is entered (demo files, or the two live sources); or
\* st.cache_data (line 370) still holds the summary of a call of the last
\* 900 s and returns it without entering the body; or st.spinner or the
\* cache raises before the body is entered
LoadWeightSummary ==
  /\ pc = "load_weight_summary"
  /\ log' = Append(log, "load_weight_summary")
  /\ \/ /\ Completes(IF use_demo THEN "lws:load_dbu_demo"
                     ELSE "lws:get_snowflake_connection")
        /\ lws_status' = "running"
     \/ /\ Completes("spinner_exit")
        /\ lws_status' = lws_status
     \/ /\ Raises("load_weight_summary")
        /\ lws_status' = lws_status
  /\ UNCHANGED <<data, use_demo, sf_conn, pg_conn, shown, months_left>>

\* an exception of class cls leaves load_weight_summary: the spinner's
\* __exit__ runs next
LwsRaisesClass(cls) ==
  /\ lws_status' = "raised"
  /\ exc' = cls
  /\ pc' = "spinner_exit"
  /\ raised_at' = raised_at
  /\ main_status' = main_status

\* a call of load_weight_summary raises
LwsRaises == \E cls \in ExceptionClasses : LwsRaisesClass(cls)

\* a step of load_weight_summary outside its try block that touches no connection
LwsStep(step, next) ==
  /\ pc = step
  /\ \/ /\ Completes(next)
        /\ lws_status' = lws_status
     \/ LwsRaises
  /\ UNCHANGED <<data, use_demo, sf_conn, pg_conn, log, shown, months_left>>

LoadDbuDemo == LwsStep("lws:load_dbu_demo", "lws:load_inrooissy_demo")

LoadInrooissyDemo == LwsStep("lws:load_inrooissy_demo", "lws:build_inrooissy_all")

\* sf_conn = get_snowflake_connection()
GetSnowflakeConnection ==
  /\ pc = "lws:get_snowflake_connection"
  /\ \/ /\ Completes("lws:get_postgres_connection")
        /\ sf_conn' = "open"
        /\ lws_status' = lws_status
     \/ /\ LwsRaises
        /\ sf_conn' = sf_conn
  /\ UNCHANGED <<data, use_demo, pg_conn, log, shown, months_left>>

\* pg_conn = get_postgres_connection(): before the try block
GetPostgresConnection ==
  /\ pc = "lws:get_postgres_connection"
  /\ \/ /\ Completes("lws:fetch_dbu_from_snowflake")
        /\ pg_conn' = "open"
        /\ lws_status' = lws_status
     \/ /\ LwsRaises
        /\ pg_conn' = pg_conn
  /\ UNCHANGED <<data, use_demo, sf_conn, log, shown, months_left>>

\* a query inside the try block: when it raises, the finally block runs
\* next and the exception waits in exc
Fetch(step, next) ==
  /\ pc = step
  /\ \/ Completes(next)
     \/ /\ pc' = "lws:sf_conn.close"
        /\ exc' \in ExceptionClasses
        /\ raised_at' = raised_at
        /\ main_status' = main_status
  /\ UNCHANGED <<data, use_demo, sf_conn, pg_conn, lws_status, log, shown,
                 months_left>>

FetchDbuFromSnowflake ==
  Fetch("lws:fetch_dbu_from_snowflake", "lws:fetch_inrooissy_no_pmcdbu_from_postgres")

FetchInrooissyNoPmcdbuFromPostgres ==
  Fetch("lws:fetch_inrooissy_no_pmcdbu_from_postgres", "lws:sf_conn.close")

\* finally: sf_conn.close(); when it raises, the rest of the block is
\* skipped and its exception takes the place of a waiting one
CloseSnowflake ==
  /\ pc = "lws:sf_conn.close"
  /\ \/ /\ Completes("lws:pg_conn.close")
        /\ sf_conn' = "closed"
        /\ lws_status' = lws_status
     \/ /\ LwsRaises
        /\ sf_conn' = sf_conn
  /\ UNCHANGED <<data, use_demo, pg_conn, log, shown, months_left>>

\* finally: pg_conn.close(); then the waiting exception, if any, goes on
ClosePostgres ==
  /\ pc = "lws:pg_conn.close"
  /\ \/ /\ exc = "none"
        /\ Completes("lws:build_inrooissy_all")
        /\ pg_conn' = "closed"
        /\ lws_status' = lws_status
     \/ /\ exc # "none"
        /\ LwsRaisesClass(exc)
        /\ pg_conn' = "closed"
     \/ /\ LwsRaises
        /\ pg_conn' = pg_conn
  /\ UNCHANGED <<data, use_demo, sf_conn, log, shown, months_left>>

LwsBuildInrooissyAll == LwsStep("lws:build_inrooissy_all", "lws:summarize_inrooissy")

\* df_summary = summarize_inrooissy(df_inrooissy); return df_summary
LwsSummarizeInrooissy ==
  /\ pc = "lws:summarize_inrooissy"
  /\ \/ /\ Completes("spinner_exit")
        /\ lws_status' = "returned"
     \/ LwsRaises
  /\ UNCHANGED <<data, use_demo, sf_conn, pg_conn, log, shown, months_left>>

\* the end of the `with st.spinner` block (line 667), inside the try block:
\* after a return main goes on, an exception that left load_weight_summary
\* goes on to the except clause, and the spinner's __exit__ may raise in
\* either case
SpinnerExit ==
  /\ pc = "spinner_exit"
  /\ \/ /\ exc = "none"
        /\ Completes("weight_success")
     \/ /\ exc # "none"
        /\ RaisesClass("load_weight_summary", exc)
     \/ Raises("load_weight_summary")
  /\ UNCHANGED <<data, use_demo, sf_conn, pg_conn, lws_status, log, shown,
                 months_left>>

WeightSuccess == StepShowing("weight_success", "calc_dbu_share", "success: weight")

MainCalcDbuShare == Step("calc_dbu_share", "merge_weight_and_price")

MainMergeWeightAndPrice == Step("merge_weight_and_price", "data_summary")

DataSummary == Step("data_summary", "chart_weight_price_combo")

ChartWeightPriceCombo == Step("chart_weight_price_combo", "detail_table")

DetailTable == Step("detail_table", "monthly_analysis")

\* months = sorted(merged_full["month"].dropna().unique()); cols = st.columns(3)
MonthlyAnalysis ==
  /\ pc = "monthly_analysis"
  /\ log' = Append(log, "monthly_analysis")
  /\ \/ /\ Completes("chart_single_month")
        /\ \E n \in 0..MaxChartMonths : months_left' = n
     \/ /\ Raises("monthly_analysis")
        /\ months_left' = months_left
  /\ UNCHANGED <<data, use_demo, sf_conn, pg_conn, lws_status, shown>>

\* one turn of the loop: chart_single_month(merged_full, m) and its display
ChartSingleMonth ==
  /\ pc = "chart_single_month"
  /\ months_left > 0
  /\ log' = Append(log, "chart_single_month")
  /\ \/ /\ Completes("chart_single_month")
        /\ months_left' = months_left - 1
     \/ /\ Raises("chart_single_month")
        /\ months_left' = months_left
  /\ UNCHANGED <<data, use_demo, sf_conn, pg_conn, lws_status, shown>>

\* the loop is over: main returns
EndOfMain ==
  /\ pc = "chart_single_month"
  /\ months_left = 0
  /\ pc' = "done"
  /\ main_status' = "returned"
  /\ UNCHANGED <<data, use_demo, sf_conn, pg_conn, exc, lws_status, log, shown,
                 raised_at, months_left>>

\* except Exception: st.error(...); live mode has a second message to show
ExceptWeight ==
  /\ pc = "except_weight"
  /\ log' = Append(log, "except_weight")
  /\ \/ /\ shown' = Append(shown, "error: weight")
        /\ pc' = IF use_demo THEN "done" ELSE "check_connections"
        /\ main_status' = IF use_demo THEN "returned" ELSE main_status
     \/ HandlerRaises
  /\ UNCHANGED <<data, use_demo, sf_conn, pg_conn, exc, lws_status, raised_at,
                 months_left>>

\* if not USE_DEMO_DATA: st.error("Please check your database connections ...")
CheckConnections ==
  /\ pc = "check_connections"
  /\ log' = Append(log, "check_connections")
  /\ \/ /\ shown' = Append(shown, "error: check connections")
        /\ pc' = "done"
        /\ main_status' = "returned"
     \/ HandlerRaises
  /\ UNCHANGED <<data, use_demo, sf_conn, pg_conn, exc, lws_status, raised_at,
                 months_left>>

NextMain ==
  \/ Title
  \/ Sidebar
  \/ ModeMessage
  \/ FileUploader
  \/ UploadInfo
  \/ GetValue
  \/ LoadPriceMonthlyFromBytes
  \/ PriceSuccess
  \/ PriceTable
  \/ ExceptPrice
  \/ LoadWeightSummary
  \/ LoadDbuDemo
  \/ LoadInrooissyDemo
  \/ GetSnowflakeConnection
  \/ GetPostgresConnection
  \/ FetchDbuFromSnowflake
  \/ FetchInrooissyNoPmcdbuFromPostgres
  \/ CloseSnowflake
  \/ ClosePostgres
  \/ LwsBuildInrooissyAll
  \/ LwsSummarizeInrooissy
  \/ SpinnerExit
  \/ WeightSuccess
  \/ MainCalcDbuShare
  \/ MainMergeWeightAndPrice
  \/ DataSummary
  \/ ChartWeightPriceCombo
  \/ DetailTable
  \/ MonthlyAnalysis
  \/ ChartSingleMonth
  \/ EndOfMain
  \/ ExceptWeight
  \/ CheckConnections

SpecMain == InitMain /\ [][NextMain]_vars

-----------------------------------------------------------------------------
(* Properties of main and load_weight_summary *)

\* C5 as claimed: in live mode, once load_weight_summary has returned or
\* raised, every connection it opened has been closed.
C5_ConnectionsReleased ==
  (~use_demo /\ lws_status \in {"returned", "raised"}) =>
    /\ sf_conn # "open"
    /\ pg_conn # "open"

StageSteps == PriceSteps \cup WeightSteps

\* the steps main started after the step whose exception a handler caught
AfterRaise ==
  LET at == CHOOSE i \in 1..Len(log) :
              log[i] = raised_at /\ \A j \in (i + 1)..Len(log) : log[j] # raised_at
  IN SubSeq(log, at + 1, Len(log))

\* the message the handler of the stage of `step` shows first
error_of(step) == IF step \in PriceSteps THEN "error: price" ELSE "error: weight"

\* after a step of a stage raised: no step of a stage is started any more,
\* none of the weight stage at all after a failure of the price stage, and
\* once main has returned the stage's error message has been shown
StageAborted ==
  raised_at \in StageSteps =>
    /\ \A i \in 1..Len(AfterRaise) : AfterRaise[i] \notin StageSteps
    /\ raised_at \in PriceSteps => \A i \in 1..Len(log) : log[i] \notin WeightSteps
    /\ pc \in {handler_of(raised_at, exc), "check_connections", "done", "escaped"}
    /\ main_status = "returned" =>
         \E i \in 1..Len(shown) : shown[i] = error_of(raised_at)

\* C10 as claimed: a stage that raises ends the run and nothing leaves main
\* as an exception: after a step of the price stage raised, no step of the
\* weight stage (load, share, merge, charts) is ever started and the price
\* error is shown; after a step of the weight stage raised, no further step
\* of the run is started and the weight error is shown.
C10_StageFailureAborts ==
  /\ StageAborted
  /\ raised_at \in StageSteps =>
       /\ main_status # "escaped"
       /\ pc = "done" => \E i \in 1..Len(shown) : shown[i] = error_of(raised_at)

\* C10 (as amended): a step of a stage that raises ends the run: no later
\* step of a stage is started.  When it raised an instance of Exception its
\* handler shows the error message and main returns, unless a st.error call
\* of the handler itself raises, which leaves main.  When it raised
\* anything else (KeyboardInterrupt, SystemExit, Streamlit's stop and rerun
\* exceptions) no handler runs: the exception leaves main at once and no
\* error message is shown.
C10_StageFailureCaught ==
  /\ StageAborted
  /\ (raised_at \in StageSteps /\ exc = "Exception" /\ main_status = "escaped") =>
       /\ log[Len(log)] \in {"except_price", "except_weight", "check_connections"}
       /\ log[Len(log)] # "check_connections" =>
            \A i \in 1..Len(shown) : shown[i] # error_of(raised_at)
  /\ (raised_at \in StageSteps /\ exc # "Exception") =>
       /\ main_status = "escaped"
       /\ log[Len(log)] = raised_at
       /\ \A i \in 1..Len(shown) : shown[i] # error_of(raised_at)
  /\ (raised_at \in StageSteps /\ pc = "done") =>
       /\ main_status = "returned"
       /\ exc = "Exception"
       /\ \E i \in 1..Len(shown) : shown[i] = error_of(raised_at)
       /\ (raised_at \in WeightSteps /\ ~use_demo) =>
            shown[Len(shown)] = "error: check connections"

C10_Witness ==
  /\ main_status = "returned"
  /\ raised_at = "load_price_monthly_from_bytes"
  /\ exc = "Exception"
  /\ log[Len(log)] = "except_price"
  /\ log[Len(log) - 1] = "load_price_monthly_from_bytes"
  /\ shown[Len(shown)] = "error: price"

-----------------------------------------------------------------------------
(* The weight adapters: each reads one source table, a demo file or the    *)
(* result of its query, and returns a ledger                               *)

\* rows in a source table
MaxSourceRows == 2

\* the characters of a text of printable ASCII, as code points
Text(chars) ==
  [i \in 1..Len(chars) |-> 31 + (CHOOSE k \in 1..Len(Ascii) : Ascii[k] = chars[i])]

\* the column names of the Snowflake export (with its bind flag), in small
\* letters
LegacyLower ==
  <<Text(<<"b", "o", "x", "_", "i", "d">>),
    Text(<<"p", "r", "o", "d", "u", "i", "t">>),
    Text(<<"b", "o", "x", "_", "w", "e", "i", "g", "h", "t">>),
    Text(<<"n", "e", "t", "_", "w", "e", "i", "g", "h", "t">>),
    Text(<<"d", "b", "u", "_", "s", "t", "o", "c", "k", "_", "i", "n", "_", "a", "t">>),
    Text(<<"d", "b", "u", "_", "s", "t", "o", "c", "k", "_", "i", "n", "_",
           "p", "d", "a", "_", "v", "e", "r", "s", "i", "o", "n">>),
    Text(<<"r", "o", "i", "_", "b", "i", "n", "d", "_", "p", "m", "c">>)>>

\* the column names of the contract, in small letters
CanonicalLower ==
  <<Text(<<"r", "e", "f", "e", "r", "e", "n", "c", "e">>),
    Text(<<"t", "r", "a", "n", "s", "p", "o", "r", "t", "e", "r">>),
    Text(<<"w", "e", "i", "g", "h", "t">>),
    Text(<<"n", "e", "t", "w", "e", "i", "g", "h", "t">>),
    Text(<<"s", "t", "o", "c", "k", "_", "i", "n", "_", "a", "t">>),
    Text(<<"s", "t", "o", "c", "k", "_", "i", "n", "_", "p", "d", "a", "_",
           "v", "e", "r", "s", "i", "o", "n">>)>>

\* a name in capitals
Capitals(text) ==
  [i \in 1..Len(text) |-> IF 97 <= text[i] /\ text[i] <= 122 THEN text[i] - 32
                           ELSE text[i]]

\* a name with the first letter of each of its words a capital (Box_Id)
Capitalised(text) ==
  [i \in 1..Len(text) |->
     IF 97 <= text[i] /\ text[i] <= 122 /\ (i = 1 \/ text[i - 1] = 95)
     THEN text[i] - 32 ELSE text[i]]

\* a name in capitals whose K is the Kelvin sign (U+212A)
WithKelvin(text) ==
  [i \in 1..Len(text) |-> IF text[i] = 107 THEN 8490 ELSE Capitals(text)[i]]

Each(names, F(_)) == [i \in 1..Len(names) |-> F(names[i])]

\* the namings a source table may carry: the Snowflake export's and the
\* contract's, in capitals, in small letters or capitalised; no two names
\* of a table are the same once in small letters
LegacyUpper == Each(LegacyLower, Capitals)
LegacyMixed == Each(LegacyLower, Capitalised)
CanonicalUpper == Each(CanonicalLower, Capitals)
CanonicalMixed == Each(CanonicalLower, Capitalised)
CanonicalKelvin == Each(CanonicalLower, WithKelvin)

\* what the i-th column of a source table holds, whatever its name
SourceRoles == WeightColumns \o <<"roi_bind_pmc">>

\* stock-in cells of a source, in 2024-01 and 2025-02 or empty: a query
\* returns datetimes, a demo file holds text
SourceStamps(demo) ==
  IF demo THEN {[text |-> <<2024, 1>>], [text |-> <<2025, 2>>], NaN}
  ELSE {[year |-> 2024, month |-> 1], [year |-> 2025, month |-> 2], NaN}

SourceRecords(tags, demo) ==
  [reference : References, transporter : tags, weight : NetWeights,
   netweight : NetWeights, stock_in_at : SourceStamps(demo),
   stock_in_pda_version : {"v1"}, roi_bind_pmc : {TRUE}]

SourceTable(names, recs) ==
  LET at(n) == CHOOSE j \in 1..Len(names) : names[j] = n
  IN DataFrame(names,
               [i \in 1..Len(recs) |->
                  [n \in Range(names) |-> recs[i][SourceRoles[at(n)]]]])

\* the namings of the table an adapter reads: a query returns the columns of
\* its SELECT, a demo file any of the namings
SourceNamings(adapter, demo) ==
  IF adapter = "program"
  THEN IF demo THEN {LegacyUpper, LegacyLower, LegacyMixed, CanonicalLower,
                     CanonicalUpper, CanonicalMixed}
       ELSE {LegacyUpper}
  ELSE IF demo THEN {CanonicalLower, CanonicalUpper, CanonicalMixed,
                     CanonicalKelvin, LegacyUpper, LegacyMixed}
       ELSE {CanonicalLower}

\* the transporter (or product code) cells of the table an adapter reads: the
\* program query keeps the two product codes of its WHERE clause, the general
\* sources may hold no transporter
SourceTags(adapter, demo) ==
  IF adapter = "program"
  THEN IF demo THEN {<<"FR-DBU-S">>, <<"UPS">>} ELSE {<<"FR-DBU-S">>, <<"FR-DBU-R">>}
  ELSE {<<"UPS">>, NaN}

InitAdapters ==
  /\ use_demo \in BOOLEAN
  /\ \E adapter \in {"program", "general"} :
       /\ pc = IF adapter = "program" THEN "program_source" ELSE "general_source"
       /\ \E names \in SourceNamings(adapter, use_demo) :
          \E k \in 0..MaxSourceRows :
          \E recs \in [1..k -> SourceRecords(SourceTags(adapter, use_demo), use_demo)] :
            source = SourceTable(names, recs)
  /\ df_inrooissy_no_pmcdbu = None
  /\ df_dbu = None
  /\ df_inrooissy = None
  /\ df_summary = None
  /\ dbu_share = None
  /\ df_price_y_m = None
  /\ merged_full = None
  /\ merged_again = None
  /\ workbook = None
  /\ df_all_price = None
  /\ sf_conn = "none"
  /\ pg_conn = "none"
  /\ exc = "none"
  /\ lws_status = "none"
  /\ log = <<>>
  /\ shown = <<>>
  /\ raised_at = "none"
  /\ months_left = 0
  /\ main_status = "running"

\* df_dbu = fetch_dbu_from_snowflake(sf_conn)
ReadDbuLive ==
  /\ pc = "program_source"
  /\ ~use_demo
  /\ df_dbu' = fetch_dbu_from_snowflake(source)
  /\ pc' = "program_adapted"
  /\ UNCHANGED <<source, workbook, df_all_price, df_price_y_m,
                 df_inrooissy_no_pmcdbu, df_inrooissy, df_summary, dbu_share,
                 merged_full, merged_again, ctl>>

\* df_dbu = load_dbu_demo()
ReadDbuDemo ==
  /\ pc = "program_source"
  /\ use_demo
  /\ df_dbu' = load_dbu_demo(source)
  /\ pc' = "program_adapted"
  /\ UNCHANGED <<source, workbook, df_all_price, df_price_y_m,
                 df_inrooissy_no_pmcdbu, df_inrooissy, df_summary, dbu_share,
                 merged_full, merged_again, ctl>>

\* df_inrooissy_no_pmcdbu = fetch_inrooissy_no_pmcdbu_from_postgres(pg_conn)
ReadInrooissyLive ==
  /\ pc = "general_source"
  /\ ~use_demo
  /\ df_inrooissy_no_pmcdbu' = fetch_inrooissy_no_pmcdbu_from_postgres(source)
  /\ pc' = "general_adapted"
  /\ UNCHANGED <<source, workbook, df_all_price, df_price_y_m, df_dbu,
                 df_inrooissy, df_summary, dbu_share, merged_full, merged_again,
                 ctl>>

\* df_inrooissy_no_pmcdbu = load_inrooissy_demo()
ReadInrooissyDemo ==
  /\ pc = "general_source"
  /\ use_demo
  /\ df_inrooissy_no_pmcdbu' = load_inrooissy_demo(source)
  /\ pc' = "general_adapted"
  /\ UNCHANGED <<source, workbook, df_all_price, df_price_y_m, df_dbu,
                 df_inrooissy, df_summary, dbu_share, merged_full, merged_again,
                 ctl>>

NextAdapters ==
  \/ ReadDbuLive
  \/ ReadDbuDemo
  \/ ReadInrooissyLive
  \/ ReadInrooissyDemo

SpecAdapters == InitAdapters /\ [][NextAdapters]_vars

-----------------------------------------------------------------------------
(* Properties of the weight adapters *)

Adapted == pc \in {"program_adapted", "general_adapted"}

\* what the adapter of this run returned
AdapterResult == IF pc = "program_adapted" THEN df_dbu ELSE df_inrooissy_no_pmcdbu

\* the source carries the names of the Snowflake export, in whatever case
LegacyNamed == \E c \in ColSet(source) : Name(lower(c)) = "box_id"

\* the result is a table with the six columns of the contract, each once,
\* and the program adapter's rows all carry the program tag
MeetsContract(res) ==
  /\ res.raised = "none"
  /\ Len(res.value.columns) = 6
  /\ ColSet(res.value) =
       {"reference", "transporter", "weight", "netweight", "stock_in_at",
        "stock_in_pda_version"}
  /\ Len(res.value.rows) = Len(source.rows)
  /\ pc = "program_adapted" =>
       \A r \in Range(res.value.rows) : r.transporter = <<"DBU-PMC">>

\* C12 as claimed: both adapters, in the demo and in the live variant, return
\* a table with the column set {reference, transporter, weight, netweight,
\* stock_in_at, stock_in_pda_version}, whether the demo file carries the
\* legacy or the canonical names, and the program adapter's rows all carry
\* 'DBU-PMC'.
C12_SameColumnsEveryNaming == Adapted => MeetsContract(AdapterResult)

\* C12 (as amended): the same, except that only the program adapter's demo
\* variant maps the legacy names: the general adapter's demo variant returns
\* the six columns for a file with the canonical names, in capitals or small
\* letters, and raises KeyError for a file with the legacy names.
C12_SameColumns ==
  Adapted =>
    IF pc = "general_adapted" /\ use_demo /\ LegacyNamed
    THEN AdapterResult.raised = "KeyError"
    ELSE MeetsContract(AdapterResult)

C12_Witness ==
  /\ pc = "program_adapted"
  /\ use_demo
  /\ source.columns = LegacyUpper
  /\ Len(source.rows) = 2
  /\ source.rows[1][LegacyUpper[2]] = <<"UPS">>
  /\ MeetsContract(df_dbu)
  /\ df_dbu.value.rows[1].transporter = <<"DBU-PMC">>

=============================================================================
